---- MODULE Spec2Model ----
(***************************************************************************)
(* State-machine model of fps_booster/adaptive_quality_manager.py:         *)
(* GraphicsConfig.clamp, RollingWindow, RidgeRegressor and                 *)
(* AdaptiveQualityManager.                                                 *)
(* Also fps_booster/performance.py (AdaptivePerformanceManager) and the    *)
(* demo loop _run of main.py.                                              *)
(*                                                                         *)
(* Number representation.  resolution_scale is held in thousandths         *)
(* (0.5 = 500, 1.0 = 1000).  Telemetry fields, the target frame time and   *)
(* the tolerance are integers (milliseconds etc.).  The regressor works    *)
(* on exact rationals <<numerator, denominator>>, denominator > 0, in      *)
(* lowest terms.                                                           *)
(***************************************************************************)
EXTENDS Integers, Sequences, FiniteSets

Min(a, b) == IF a <= b THEN a ELSE b
Max(a, b) == IF a >= b THEN a ELSE b

(***************************************************************************)
(* Outcome of a call: a returned value or a raised exception.              *)
(***************************************************************************)
NoValue == <<>>
Ok(v) == [ok |-> TRUE, val |-> v, err |-> "none"]
Raise(e) == [ok |-> FALSE, val |-> NoValue, err |-> e]

(***************************************************************************)
(* GraphicsConfig                                                          *)
(***************************************************************************)
GraphicsConfig(rs, ao, sd) ==
  [resolution_scale |-> rs, ambient_occlusion |-> ao, shadow_distance |-> sd]

ResolutionMin == 500
ResolutionMax == 1000
allowed_ao == <<"off", "low", "medium", "high">>
allowed_shadow == <<"short", "medium", "long">>

Range(seq) == {seq[i] : i \in 1..Len(seq)}

\* Mutant of clamp: the lower bound of resolution_scale is not enforced.
clamp_NoFloor(config) ==
  [resolution_scale |-> Min(config.resolution_scale, ResolutionMax),
   ambient_occlusion |->
     IF config.ambient_occlusion \in Range(allowed_ao)
       THEN config.ambient_occlusion ELSE "medium",
   shadow_distance |->
     IF config.shadow_distance \in Range(allowed_shadow)
       THEN config.shadow_distance ELSE "medium"]

\* Mutant of clamp: an unknown ambient_occlusion value is passed through.
clamp_KeepsUnknownAo(config) ==
  [resolution_scale |->
     Min(Max(config.resolution_scale, ResolutionMin), ResolutionMax),
   ambient_occlusion |-> config.ambient_occlusion,
   shadow_distance |->
     IF config.shadow_distance \in Range(allowed_shadow)
       THEN config.shadow_distance ELSE "medium"]

\* GraphicsConfig.clamp: a new config, the receiver is not touched.
clamp(config) ==
  [resolution_scale |->
     Min(Max(config.resolution_scale, ResolutionMin), ResolutionMax),
   ambient_occlusion |->
     IF config.ambient_occlusion \in Range(allowed_ao)
       THEN config.ambient_occlusion ELSE "medium",
   shadow_distance |->
     IF config.shadow_distance \in Range(allowed_shadow)
       THEN config.shadow_distance ELSE "medium"]

(***************************************************************************)
(* TelemetrySample                                                         *)
(***************************************************************************)
TelemetrySample(fps, gpu, cpu, ft) ==
  [fps |-> fps, gpu_temp |-> gpu, cpu_usage |-> cpu, frame_time_ms |-> ft]

(***************************************************************************)
(* Exact rational arithmetic (the code computes in floats).                *)
(***************************************************************************)
Abs(n) == IF n < 0 THEN -n ELSE n

RECURSIVE Gcd(_, _)
Gcd(a, b) == IF b = 0 THEN a ELSE Gcd(b, a % b)

RNorm(n, d) ==
  LET g == Gcd(Abs(n), Abs(d))
      s == IF d < 0 THEN -1 ELSE 1
  IN  <<(s * n) \div g, (s * d) \div g>>

RInt(n) == <<n, 1>>
RZero == <<0, 1>>
ROne == <<1, 1>>
RAdd(a, b) == RNorm(a[1] * b[2] + b[1] * a[2], a[2] * b[2])
RSub(a, b) == RNorm(a[1] * b[2] - b[1] * a[2], a[2] * b[2])
RMul(a, b) == RNorm(a[1] * b[1], a[2] * b[2])
RDiv(a, b) == RNorm(a[1] * b[2], a[2] * b[1])
RLess(a, b) == a[1] * b[2] < b[1] * a[2]
RAbs(a) == <<Abs(a[1]), a[2]>>

RECURSIVE RSum(_)
RSum(seq) == IF seq = <<>> THEN RZero ELSE RAdd(seq[1], RSum(Tail(seq)))

\* TelemetrySample.performance_margin: the target is the constant
\* 1000.0 / 60.0, whatever the manager's target_frame_time_ms is.
performance_margin(self) ==
  LET target_frame_time == RDiv(RInt(1000), RInt(60))
  IN  RSub(target_frame_time, RInt(self.frame_time_ms))

(***************************************************************************)
(* Linear algebra helpers of the regressor.  Matrices are sequences of     *)
(* rows, rows are sequences of rationals.                                  *)
(***************************************************************************)

\* _matmul_transpose: result[j][k] = sum over rows i of m[i][j] * m[i][k].
_matmul_transpose(matrix) ==
  LET rows == Len(matrix)
      cols == Len(matrix[1])
  IN  [j \in 1..cols |->
        [k \in 1..cols |->
          RSum([i \in 1..rows |-> RMul(matrix[i][j], matrix[i][k])])]]

\* _matvec: one entry per ROW of the matrix, row . vector[0:len(row)];
\* vector[j] with j beyond the vector's end raises IndexError.
_matvec(matrix, vector) ==
  IF \E i \in 1..Len(matrix) : Len(matrix[i]) > Len(vector)
    THEN Raise("IndexError")
    ELSE Ok([i \in 1..Len(matrix) |->
              RSum([j \in 1..Len(matrix[i]) |->
                     RMul(matrix[i][j], vector[j])])])

\* abs(x) < 1e-12.  Every rational the model can hold has a denominator
\* below 2^31, so a non-zero one has magnitude above 1e-12.
NearZero(x) == x[1] = 0

\* max(range(i, size), key=lambda r: abs(augmented[r][i])): the first row,
\* from i on, whose column-i magnitude no later row exceeds.
RECURSIVE PivotRow(_, _, _, _)
PivotRow(augmented, i, r, best) ==
  IF r > Len(augmented) THEN best
  ELSE PivotRow(augmented, i, r + 1,
         IF RLess(RAbs(augmented[best][i]), RAbs(augmented[r][i]))
           THEN r ELSE best)

Swap(augmented, i, p) ==
  [r \in 1..Len(augmented) |->
     IF r = i THEN augmented[p] ELSE IF r = p THEN augmented[i]
     ELSE augmented[r]]

\* One pass of the loop body for column i, after the pivot row is in place:
\* normalise row i from column i on, then clear column i in the other rows.
EliminateStep(augmented, i) ==
  LET size == Len(augmented)
      pivot == augmented[i][i]
      rowi == [j \in 1..(size + 1) |->
                IF j >= i THEN RDiv(augmented[i][j], pivot)
                ELSE augmented[i][j]]
  IN  [r \in 1..size |->
        IF r = i THEN rowi
        ELSE LET factor == augmented[r][i]
             IN  IF NearZero(factor) THEN augmented[r]
                 ELSE [c \in 1..(size + 1) |->
                        IF c >= i
                          THEN RSub(augmented[r][c], RMul(factor, rowi[c]))
                          ELSE augmented[r][c]]]

RECURSIVE SolveFrom(_, _)
SolveFrom(augmented, i) ==
  LET size == Len(augmented)
  IN  IF i > size
        THEN Ok([row \in 1..size |-> augmented[row][size + 1]])
        ELSE LET pivot_row == PivotRow(augmented, i, i + 1, i)
             IN  IF NearZero(augmented[pivot_row][i])
                   THEN Raise("ValueError: matrix is singular")
                   ELSE SolveFrom(
                          EliminateStep(Swap(augmented, i, pivot_row), i),
                          i + 1)

\* _solve_linear_system: Gauss-Jordan elimination with partial pivoting on
\* [matrix | vector[0:size]]; vector[row] beyond the end raises IndexError.
_solve_linear_system(matrix, vector) ==
  LET size == Len(matrix)
  IN  IF Len(vector) < size
        THEN Raise("IndexError")
        ELSE SolveFrom([row \in 1..size |-> matrix[row] \o <<vector[row]>>], 1)

(***************************************************************************)
(* RidgeRegressor: alpha and _coef (None until a fit succeeds).            *)
(***************************************************************************)
NoCoef == <<>>
RidgeRegressor(alpha) == [alpha |-> alpha, _coef |-> NoCoef]

\* Mutant of IsFitted: the test for missing coefficients is left out.
IsFitted_Always(self) == TRUE

\* self._coef is not None
IsFitted(self) == self._coef # NoCoef

\* The value fit would store in _coef, or the exception it raises.
fit_coef(alpha, features, targets) ==
  IF features = <<>>
    THEN Raise("ValueError: features must not be empty")
  ELSE IF \E i \in 1..Len(features) : Len(features[i]) # Len(features[1])
    THEN Raise("ValueError: feature rows must be uniform length")
  ELSE
    LET augmented == [i \in 1..Len(features) |->
                       <<ROne>> \o [j \in 1..Len(features[i]) |->
                                      RInt(features[i][j])]]
        gram == _matmul_transpose(augmented)
        XtX == [i \in 1..Len(gram) |->
                 [j \in 1..Len(gram) |->
                    IF i = j /\ i > 1 THEN RAdd(gram[i][j], alpha)
                    ELSE gram[i][j]]]
        Xty == _matvec(augmented, [k \in 1..Len(targets) |-> RInt(targets[k])])
    IN  IF ~Xty.ok THEN Xty ELSE _solve_linear_system(XtX, Xty.val)

\* Mutant of fit: the coefficients are reset when the call starts, so a
\* failing call leaves the regressor unfitted.
fit_ResetsFirst(self, features, targets) ==
  IF fit_coef(self.alpha, features, targets).ok
    THEN [self |-> [self EXCEPT !._coef =
                      fit_coef(self.alpha, features, targets).val],
          out |-> Ok(NoValue)]
    ELSE [self |-> [self EXCEPT !._coef = NoCoef],
          out |-> fit_coef(self.alpha, features, targets)]

\* RidgeRegressor.fit: the regressor afterwards and the exception, if any.
\* _coef is assigned only by the last statement, after the solve returned.
fit(self, features, targets) ==
  LET solved == fit_coef(self.alpha, features, targets)
  IN  IF solved.ok
        THEN [self |-> [self EXCEPT !._coef = solved.val], out |-> Ok(NoValue)]
        ELSE [self |-> self, out |-> solved]

\* Mutant of predict: the length test is left out, so zip() stops at the
\* shorter of the two vectors.
predict_NoLengthCheck(self, features) ==
  IF ~IsFitted(self)
    THEN Raise("RuntimeError: model must be fitted before prediction")
  ELSE Ok(RSum([k \in 1..Min(Len(features) + 1, Len(self._coef)) |->
                 RMul(IF k = 1 THEN ROne ELSE RInt(features[k - 1]),
                      self._coef[k])]))

\* RidgeRegressor.predict
predict(self, features) ==
  IF ~IsFitted(self)
    THEN Raise("RuntimeError: model must be fitted before prediction")
  ELSE IF Len(features) + 1 # Len(self._coef)
    THEN Raise("ValueError: feature vector has unexpected length")
  ELSE Ok(RSum([k \in 1..Len(self._coef) |->
                 RMul(IF k = 1 THEN ROne ELSE RInt(features[k - 1]),
                      self._coef[k])]))

(***************************************************************************)
(* RollingWindow: _capacity and the deque _buffer of (sample, config)      *)
(* pairs, oldest first.                                                    *)
(***************************************************************************)
NoWindow == [_capacity |-> 0, _buffer |-> <<>>]

\* Mutant of RollingWindow: only a negative capacity is rejected.
RollingWindow_AcceptsZero(capacity) ==
  IF capacity < 0
    THEN Raise("ValueError: capacity must be positive")
    ELSE Ok([_capacity |-> capacity, _buffer |-> <<>>])

\* RollingWindow.__init__
RollingWindow(capacity) ==
  IF capacity <= 0
    THEN Raise("ValueError: capacity must be positive")
    ELSE Ok([_capacity |-> capacity, _buffer |-> <<>>])

\* Mutant of DequeAppend: at capacity the new element is dropped, not the
\* oldest one.
DequeAppend_DropsNewest(buffer, maxlen, x) ==
  IF Len(buffer) >= maxlen THEN buffer ELSE Append(buffer, x)

\* deque(maxlen=capacity).append(x), maxlen > 0
DequeAppend(buffer, maxlen, x) ==
  IF Len(buffer) >= maxlen
    THEN Append(Tail(buffer), x)
    ELSE Append(buffer, x)

\* RollingWindow.append: the window afterwards.
append(self, sample, config) ==
  [self EXCEPT !._buffer = DequeAppend(@, self._capacity, <<sample, clamp(config)>>)]

\* RollingWindow.__len__ and items
len(self) == Len(self._buffer)
items(self) == self._buffer

(***************************************************************************)
(* AdaptiveQualityManager                                                  *)
(***************************************************************************)
ao_levels == <<"off", "low", "medium", "high">>
shadow_levels == <<"short", "medium", "long">>

\* tuple.index(value): the 0-based position, ValueError when absent.
index(levels, value) ==
  IF value \in Range(levels)
    THEN Ok((CHOOSE i \in 1..Len(levels) : levels[i] = value) - 1)
    ELSE Raise("ValueError: tuple.index(x): x not in tuple")

\* round(x, 2) of a non-negative value in thousandths.  A value ending in 5
\* (a decimal tie) rounds either way in binary floating point; the inputs
\* of the model contain none.
round2(v) == ((v + 5) \div 10) * 10

ResolutionStep == 50

\* Mutant of ScaleDownThreshold: the resolution is lowered down to 0.7.
ScaleDownThreshold_Lower == 800 - 100

\* _scale_down lowers the resolution only while it is above 0.8.
ScaleDownThreshold == 800

\* Mutant of _scale_down: the resolution step has the wrong sign.
_scale_down_StepsUp(config) ==
  IF ~index(ao_levels, config.ambient_occlusion).ok
    THEN index(ao_levels, config.ambient_occlusion)
  ELSE IF ~index(shadow_levels, config.shadow_distance).ok
    THEN index(shadow_levels, config.shadow_distance)
  ELSE IF config.resolution_scale > ScaleDownThreshold
    THEN Ok(clamp([config EXCEPT !.resolution_scale =
                            round2(@ + ResolutionStep)]))
  ELSE Ok(clamp(config))

\* Mutant of _scale_down: the resolution branch does not return, so the
\* ambient occlusion is lowered in the same step.
_scale_down_FallsThrough(config) ==
  IF ~index(ao_levels, config.ambient_occlusion).ok
    THEN index(ao_levels, config.ambient_occlusion)
  ELSE IF ~index(shadow_levels, config.shadow_distance).ok
    THEN index(shadow_levels, config.shadow_distance)
  ELSE IF config.resolution_scale > ScaleDownThreshold
    THEN Ok(clamp([config EXCEPT
                     !.resolution_scale = round2(@ - ResolutionStep),
                     !.ambient_occlusion =
                       ao_levels[Max(index(ao_levels, @).val - 1, 0) + 1]]))
  ELSE Ok(clamp(config))

\* AdaptiveQualityManager._scale_down.  Both index() calls run first.
_scale_down(config) ==
  LET ao_at == index(ao_levels, config.ambient_occlusion)
      shadow_at == index(shadow_levels, config.shadow_distance)
  IN  IF ~ao_at.ok THEN ao_at
      ELSE IF ~shadow_at.ok THEN shadow_at
      ELSE
        LET current_ao_index == Max(ao_at.val, 0)
            current_shadow_index == Max(shadow_at.val, 0)
        IN  IF config.resolution_scale > ScaleDownThreshold
              THEN Ok(clamp([config EXCEPT !.resolution_scale =
                                      round2(@ - ResolutionStep)]))
            ELSE IF current_ao_index > 0
              THEN Ok(clamp([config EXCEPT !.ambient_occlusion =
                                      ao_levels[(current_ao_index - 1) + 1]]))
            ELSE IF current_shadow_index > 0
              THEN Ok(clamp([config EXCEPT !.shadow_distance =
                                      shadow_levels[(current_shadow_index - 1) + 1]]))
            ELSE Ok(clamp(config))

\* Mutant of _scale_up: at full resolution the ambient occlusion is lowered.
_scale_up_LowersAo(config) ==
  IF ~index(ao_levels, config.ambient_occlusion).ok
    THEN index(ao_levels, config.ambient_occlusion)
  ELSE IF ~index(shadow_levels, config.shadow_distance).ok
    THEN index(shadow_levels, config.shadow_distance)
  ELSE IF config.resolution_scale < ResolutionMax
    THEN Ok(clamp([config EXCEPT !.resolution_scale =
                            round2(@ + ResolutionStep)]))
  ELSE IF index(ao_levels, config.ambient_occlusion).val > 0
    THEN Ok(clamp([config EXCEPT !.ambient_occlusion =
                            ao_levels[index(ao_levels, @).val]]))
  ELSE Ok(clamp(config))

\* AdaptiveQualityManager._scale_up.  Both index() calls run first.
_scale_up(config) ==
  LET ao_at == index(ao_levels, config.ambient_occlusion)
      shadow_at == index(shadow_levels, config.shadow_distance)
  IN  IF ~ao_at.ok THEN ao_at
      ELSE IF ~shadow_at.ok THEN shadow_at
      ELSE
        LET current_ao_index == Max(ao_at.val, 0)
            current_shadow_index == Max(shadow_at.val, 0)
        IN  IF config.resolution_scale < ResolutionMax
              THEN Ok(clamp([config EXCEPT !.resolution_scale =
                                      round2(@ + ResolutionStep)]))
            ELSE IF current_ao_index < Len(ao_levels) - 1
              THEN Ok(clamp([config EXCEPT !.ambient_occlusion =
                                      ao_levels[(current_ao_index + 1) + 1]]))
            ELSE IF current_shadow_index < Len(shadow_levels) - 1
              THEN Ok(clamp([config EXCEPT !.shadow_distance =
                                      shadow_levels[(current_shadow_index + 1) + 1]]))
            ELSE Ok(clamp(config))

Features(sample) ==
  <<sample.fps, sample.gpu_temp, sample.cpu_usage, sample.frame_time_ms>>

\* Mutant of TrainingSet: the pair appended by this update is left out.
TrainingSet_ExcludesNewest(self, window) ==
  [features |-> [i \in 1..(len(window) - 1) |-> Features(items(window)[i][1])],
   targets |-> [i \in 1..(len(window) - 1) |->
                  self.target_frame_time_ms - items(window)[i][1].frame_time_ms]]

\* The arguments _train_model passes to regressor.fit: one row and one
\* target per stored pair, in items() order.
TrainingSet(self, window) ==
  [features |-> [i \in 1..len(window) |-> Features(items(window)[i][1])],
   targets |-> [i \in 1..len(window) |->
                  self.target_frame_time_ms - items(window)[i][1].frame_time_ms]]

\* AdaptiveQualityManager._train_model: the regressor afterwards and the
\* exception of fit, if any.
_train_model(self, window) ==
  fit(self.regressor, TrainingSet(self, window).features,
      TrainingSet(self, window).targets)

\* Mutant of Direction: inside the band the prediction is not consulted.
Direction_IgnoresPrediction(observed_margin, prediction, tolerance) ==
  IF observed_margin < -tolerance THEN "down"
  ELSE IF observed_margin > tolerance THEN "up"
  ELSE "hold"

\* Mutant of Direction: the prediction alone decides.
Direction_PredictionDecides(observed_margin, prediction, tolerance) ==
  IF RLess(prediction, RInt(-tolerance)) THEN "down"
  ELSE IF RLess(RInt(tolerance), prediction) THEN "up"
  ELSE "hold"

\* The branch _recommend takes (its two if statements, in order).
Direction(observed_margin, prediction, tolerance) ==
  IF \/ observed_margin < -tolerance
     \/ /\ Abs(observed_margin) <= tolerance
        /\ RLess(prediction, RInt(-tolerance))
    THEN "down"
  ELSE IF \/ observed_margin > tolerance
          \/ /\ Abs(observed_margin) <= tolerance
             /\ RLess(RInt(tolerance), prediction)
    THEN "up"
  ELSE "hold"

NoCall == <<>>

\* AdaptiveQualityManager._recommend with a fitted-or-not regressor: the
\* outcome, the prediction and the branch taken.
_recommend(self, regressor, sample, config) ==
  LET predicted == predict(regressor, Features(sample))
      observed_margin == self.target_frame_time_ms - sample.frame_time_ms
      direction == Direction(observed_margin, predicted.val,
                             self.margin_tolerance_ms)
  IN  IF ~predicted.ok
        THEN [out |-> predicted, prediction |-> NoCall, direction |-> "none"]
        ELSE [out |-> IF direction = "down" THEN _scale_down(config)
                      ELSE IF direction = "up" THEN _scale_up(config)
                      ELSE Ok(clamp(config)),
              prediction |-> predicted.val,
              direction |-> direction]

\* Mutant of WarmUpSamples: the guard is off by one.
WarmUpSamples_OffByOne == 5 - 1

\* update's warm-up guard: len(self.window) < 5
WarmUpSamples == 5

\* AdaptiveQualityManager.update on the manager's window: the window and
\* the regressor afterwards, the outcome, and what was passed to fit and
\* predict (NoCall when the call was not made).
update(self, window, sample, config) ==
  LET stored == append(window, sample, config)
      trained == _train_model(self, stored)
      recommended == _recommend(self, trained.self, sample, config)
  IN  IF len(stored) < WarmUpSamples
        THEN [window |-> stored, regressor |-> self.regressor,
              out |-> Ok(clamp(config)),
              fit_args |-> NoCall, predict_args |-> NoCall,
              prediction |-> NoCall, direction |-> "none"]
      ELSE IF ~trained.out.ok
        THEN [window |-> stored, regressor |-> trained.self,
              out |-> trained.out,
              fit_args |-> <<TrainingSet(self, stored)>>,
              predict_args |-> NoCall,
              prediction |-> NoCall, direction |-> "none"]
      ELSE [window |-> stored, regressor |-> trained.self,
            out |-> recommended.out,
            fit_args |-> <<TrainingSet(self, stored)>>,
            predict_args |-> <<Features(sample)>>,
            prediction |-> recommended.prediction,
            direction |-> recommended.direction]

DefaultCapacity == 120

NoManager ==
  [constructed |-> FALSE, window_arg |-> "none", window |-> "none",
   regressor |-> RidgeRegressor(RZero),
   target_frame_time_ms |-> 0, margin_tolerance_ms |-> 0]

\* Python truth value of the `window` argument: None is false, and so is an
\* object whose __len__ returns 0.
Truthy(window_arg, supplied) == window_arg # "none" /\ len(supplied) # 0

\* Mutant of AdaptiveQualityManager: the default window replaces the argument
\* only when the argument is None.
AdaptiveQualityManager_IsNone(window_arg, supplied, regressor, target, tolerance) ==
  [self |-> [constructed |-> TRUE,
             window_arg |-> window_arg,
             window |-> IF window_arg # "none" THEN window_arg ELSE "default",
             regressor |-> regressor,
             target_frame_time_ms |-> target,
             margin_tolerance_ms |-> tolerance],
   default |-> IF window_arg # "none" THEN NoWindow
               ELSE RollingWindow(DefaultCapacity).val]

\* AdaptiveQualityManager.__init__: `window or RollingWindow(capacity=120)`.
\* window_arg names the argument ("none" or "supplied"); the result is the
\* manager and the default window it constructed, if any.  The field
\* window_arg of the manager only remembers what the caller passed.
AdaptiveQualityManager(window_arg, supplied, regressor, target, tolerance) ==
  [self |-> [constructed |-> TRUE,
             window_arg |-> window_arg,
             window |-> IF Truthy(window_arg, supplied) THEN window_arg
                        ELSE "default",
             regressor |-> regressor,
             target_frame_time_ms |-> target,
             margin_tolerance_ms |-> tolerance],
   default |-> IF Truthy(window_arg, supplied) THEN NoWindow
               ELSE RollingWindow(DefaultCapacity).val]

(***************************************************************************)
(* fps_booster/performance.py: AdaptivePerformanceManager.  The fields of  *)
(* a PerformanceSample, target_fps and everything derived from them are    *)
(* exact rationals; a decimal literal of the code (0.98, 0.35, ...) is the *)
(* rational it denotes.                                                    *)
(***************************************************************************)
None == NoValue

RMax(a, b) == IF RLess(a, b) THEN b ELSE a
RMin(a, b) == IF RLess(b, a) THEN b ELSE a
RLeq(a, b) == ~RLess(b, a)

\* round(x, 3) of a non-negative value: the nearest thousandth, an exact
\* tie going to the even one.
round3(x) ==
  LET n == x[1] * 1000
      q == n \div x[2]
      r == n % x[2]
  IN  RNorm(IF 2 * r > x[2] \/ (2 * r = x[2] /\ q % 2 = 1) THEN q + 1 ELSE q,
            1000)

PerformanceSample(fps, frame_time_ms, cpu_util, gpu_util) ==
  [fps |-> fps, frame_time_ms |-> frame_time_ms,
   cpu_util |-> cpu_util, gpu_util |-> gpu_util]

\* What HardwareTelemetryCollector.snapshot() returns; a field is None when
\* its library is missing.  The temperatures never reach update's result.
HardwareSnapshot(cpu_util, gpu_util) ==
  [cpu_util |-> cpu_util, gpu_util |-> gpu_util]

PerformanceRecommendation(scaling_factor, quality_shift, confidence, narrative, hardware_snapshot) ==
  [scaling_factor |-> scaling_factor, quality_shift |-> quality_shift,
   confidence |-> confidence, narrative |-> narrative,
   hardware_snapshot |-> hardware_snapshot]

NoPerformanceManager ==
  [constructed |-> FALSE, _target_fps |-> RZero, maxlen |-> 0,
   _history |-> <<>>, _telemetry |-> FALSE]

\* AdaptivePerformanceManager(target_fps, history, FeatureFlags(
\* hardware_telemetry=...), telemetry_collector); telemetry_collector is
\* TRUE when a collector is passed.
AdaptivePerformanceManager(target_fps, history, hardware_telemetry, telemetry_collector) ==
  IF RLeq(target_fps, RZero)
    THEN Raise("ValueError: target_fps must be positive")
  ELSE IF history <= 0
    THEN Raise("ValueError: history must be positive")
  ELSE Ok([constructed |-> TRUE, _target_fps |-> target_fps,
           maxlen |-> history, _history |-> <<>>,
           _telemetry |-> hardware_telemetry /\ telemetry_collector])

_compute_scaling(fps_ratio, load, frame_pressure) ==
  LET a1 == RSub(ROne, RMul(RMax(RZero, RSub(ROne, fps_ratio)), <<1, 5>>))
      a2 == RSub(a1, RMul(RMax(RZero, RSub(load, <<17, 20>>)), <<3, 10>>))
      a3 == RSub(a2, RMul(RMax(RZero, RSub(frame_pressure, ROne)), <<1, 4>>))
      adjustment == RAdd(a3, RMul(RMax(RZero, RSub(fps_ratio, <<6, 5>>)),
                                  <<1, 10>>))
  IN  RMin(<<5, 4>>, RMax(<<1, 2>>, adjustment))

\* Mutant of _determine_quality_shift: the -1 rung starts below 95% of the
\* target instead of 98%.
_determine_quality_shift_Lenient(fps_ratio, load) ==
  IF RLess(fps_ratio, <<23, 25>>) \/ RLess(<<19, 20>>, load) THEN -2
  ELSE IF RLess(fps_ratio, <<19, 20>>) \/ RLess(<<9, 10>>, load) THEN -1
  ELSE IF RLess(<<5, 4>>, fps_ratio) /\ RLess(load, <<7, 10>>) THEN 1
  ELSE 0

_determine_quality_shift(fps_ratio, load) ==
  IF RLess(fps_ratio, <<23, 25>>) \/ RLess(<<19, 20>>, load) THEN -2
  ELSE IF RLess(fps_ratio, <<49, 50>>) \/ RLess(<<9, 10>>, load) THEN -1
  ELSE IF RLess(<<5, 4>>, fps_ratio) /\ RLess(load, <<7, 10>>) THEN 1
  ELSE 0

\* Mutant of _confidence: the ratio is returned without the cap at 1.0.
_confidence_Uncapped(self) ==
  LET history_len == Len(self._history)
      capacity == IF self.maxlen # 0 THEN self.maxlen ELSE 1
  IN  RDiv(RInt(history_len), RMul(<<7, 20>>, RInt(capacity)))

_confidence(self) ==
  LET history_len == Len(self._history)
      capacity == IF self.maxlen # 0 THEN self.maxlen ELSE 1
  IN  RMin(ROne, RDiv(RInt(history_len), RMul(<<7, 20>>, RInt(capacity))))

_compose_narrative(fps_ratio, quality_shift) ==
  LET tone == IF quality_shift < 0 THEN "Pare visuals back"
              ELSE IF quality_shift > 0 THEN "Performance headroom"
              ELSE "Hold the line"
      momentum == IF RLess(fps_ratio, ROne) THEN "Under target"
                  ELSE IF RLess(fps_ratio, <<23, 20>>) THEN "At pace"
                  ELSE "Surplus"
  IN  <<momentum, tone>>

\* AdaptivePerformanceManager.update(sample); snapshot is what
\* self._telemetry.snapshot() returns when the manager has a collector.
\* The result is the manager after the call and the call's outcome.
AdaptivePerformanceManager_update(self, sample, snapshot) ==
  IF RLeq(sample.fps, RZero) \/ RLeq(sample.frame_time_ms, RZero)
    THEN [self |-> self,
          out |-> Raise("ValueError: fps and frame_time_ms must be positive")]
  ELSE IF \/ ~(RLeq(RZero, sample.cpu_util) /\ RLeq(sample.cpu_util, RInt(100)))
          \/ ~(RLeq(RZero, sample.gpu_util) /\ RLeq(sample.gpu_util, RInt(100)))
    THEN [self |-> self,
          out |-> Raise("ValueError: cpu_util and gpu_util must be within [0, 100]")]
  ELSE
    LET telemetry == IF self._telemetry THEN snapshot ELSE None
        cpu_util == IF self._telemetry /\ telemetry.cpu_util # None
                      THEN telemetry.cpu_util ELSE sample.cpu_util
        gpu_util == IF self._telemetry /\ telemetry.gpu_util # None
                      THEN telemetry.gpu_util ELSE sample.gpu_util
        enriched_sample == PerformanceSample(sample.fps, sample.frame_time_ms,
                                             cpu_util, gpu_util)
        after == [self EXCEPT !._history =
                    DequeAppend(@, self.maxlen, enriched_sample)]
        fps_ratio == RDiv(enriched_sample.fps, self._target_fps)
        load == RDiv(RAdd(enriched_sample.cpu_util, enriched_sample.gpu_util),
                     RInt(200))
        frame_pressure == RDiv(enriched_sample.frame_time_ms,
                               RDiv(RInt(1000), self._target_fps))
        scaling_factor == _compute_scaling(fps_ratio, load, frame_pressure)
        quality_shift == _determine_quality_shift(fps_ratio, load)
        confidence == _confidence(after)
        narrative == _compose_narrative(fps_ratio, quality_shift)
    IN  [self |-> after,
         out |-> Ok(PerformanceRecommendation(round3(scaling_factor),
                                              quality_shift,
                                              round3(confidence),
                                              narrative, telemetry))]

\* AdaptivePerformanceManager.reset()
AdaptivePerformanceManager_reset(self) == [self EXCEPT !._history = <<>>]

(***************************************************************************)
(* main.py: the demo runtime.  _run is a coroutine; its position is        *)
(* demo.pc.                                                                *)
(***************************************************************************)
\* _demo_performance(step)
_demo_performance(step) ==
  LET fps == 70 - (step % 4) * 5
      frame_time == RDiv(RInt(1000), RInt(Max(fps, 1)))
      cpu == 40 + (step % 3) * 5
      gpu == 45 + (step % 2) * 10
  IN  PerformanceSample(RInt(fps), frame_time, RInt(cpu), RInt(gpu))

\* Mutant of LeavesLoop: the stop event is not looked at.
LeavesLoop_IgnoresStopEvent(stop_event, steps, step) ==
  steps > 0 /\ step >= steps

\* The two tests at the top of _run's loop.  stop_event is "none" when no
\* event was passed, else "clear" or "set".
LeavesLoop(stop_event, steps, step) ==
  \/ stop_event = "set"
  \/ steps > 0 /\ step >= steps

\* Mutant of BroadcasterStopped: stop() leaves the server running.
BroadcasterStopped_KeepsServer(broadcaster) ==
  [broadcaster EXCEPT !.stopped = TRUE]

\* OverlayEventBroadcaster.stop()
BroadcasterStopped(broadcaster) ==
  [broadcaster EXCEPT !._server = FALSE, !.stopped = TRUE]

\* The broadcaster's buffer is a deque(maxlen=buffer) of which only the
\* length is kept.
WebsocketBuffer == 128

NoBroadcaster ==
  [present |-> FALSE, _websockets |-> FALSE, _server |-> FALSE,
   _buffer |-> 0, started |-> FALSE, stopped |-> FALSE]

\* What helper.process_audio stores.  "AudioAnalyzer" is audio.py's analyzer,
\* whose AudioReport has three fields; "keyword_analyzer" is an analyzer
\* supplied by the caller whose reports also carry keywords.
AudioReport(analyzer) ==
  IF analyzer = "AudioAnalyzer"
    THEN [dominant_frequency |-> "f", band_energy |-> "e",
          event_confidence |-> "c"]
    ELSE [dominant_frequency |-> "f", band_energy |-> "e",
          event_confidence |-> "c", keywords |-> <<>>]

\* ArenaHelper(audio=..., feature_flags=..., broadcaster=...): without an
\* analyzer it calls AudioAnalyzer(sample_rate=48000, keyword_spotter=...),
\* a keyword AudioAnalyzer.__init__ does not take.
ArenaHelper(audio) ==
  IF audio = "none"
    THEN Raise("TypeError: AudioAnalyzer.__init__() got an unexpected keyword argument 'keyword_spotter'")
    ELSE Ok(audio)

\* ArenaHelper._compose_commentary reads self._last_audio.keywords once
\* audio has been processed.
_compose_commentary(_last_audio) ==
  IF _last_audio # None /\ "keywords" \notin DOMAIN _last_audio
    THEN Raise("AttributeError: 'AudioReport' object has no attribute 'keywords'")
    ELSE Ok("commentary")

NoRun ==
  [pc |-> "none", steps |-> 0, interval |-> 0, stop_event |-> "none",
   set_at_call |-> FALSE, step |-> 0, broadcaster |-> NoBroadcaster,
   enable_hw |-> FALSE, audio |-> "none", frames |-> 0, audios |-> 0,
   sessions |-> 0, payloads |-> 0, _last_audio |-> None,
   _last_performance |-> None, pending |-> "none", cancelled |-> FALSE]

(***************************************************************************)
(* The state machine.                                                      *)
(*   heap      the two RollingWindow objects there can be: "supplied", the *)
(*             one the caller constructs, and "default", the one the       *)
(*             manager constructs for itself                               *)
(*   manager   the AdaptiveQualityManager; manager.window names its window *)
(*   last      the most recent call: arguments, outcome, and what update   *)
(*             passed to the regressor                                     *)
(*   appended  per window, every (sample, config) pair passed to append,   *)
(*             in call order                                               *)
(*   cfg, clamped, reclamped   a config c, c.clamp() and c.clamp().clamp() *)
(*   performance   the AdaptivePerformanceManager                          *)
(*   recommended   the most recent call on it and its outcome              *)
(*   demo      main.py's _run: its arguments, position and helper          *)
(***************************************************************************)
VARIABLES heap, manager, last, appended, cfg, clamped, reclamped,
          performance, recommended, demo

vars == <<heap, manager, last, appended, cfg, clamped, reclamped,
          performance, recommended, demo>>

NoSample == TelemetrySample(0, 0, 0, 0)
NoConfig == GraphicsConfig(0, "", "")

Idle ==
  [op |-> "none", capacity |-> 0, sample |-> NoSample, config |-> NoConfig,
   out |-> Ok(NoValue), regressor_before |-> RidgeRegressor(RZero),
   fit_args |-> NoCall, predict_args |-> NoCall, prediction |-> NoCall,
   direction |-> "none"]

Quiet ==
  [op |-> "none", sample |-> PerformanceSample(RZero, RZero, RZero, RZero),
   out |-> Ok(NoValue), previous |-> None, latest |-> None, calls |-> 0,
   resets |-> 0]

\* Bounds and input sets of the model.
MaxCalls == 5
Capacities == {-1, 0, 2, 5}
Alphas == {RZero, ROne}
Targets == {3}
Tolerances == {1}
Samples == {TelemetrySample(1, 0, 0, 1), TelemetrySample(2, 0, 0, 5)}
Configs == {GraphicsConfig(950, "high", "long"),
            GraphicsConfig(1200, "ultra", "distant")}

TotalCalls == Len(appended["supplied"]) + Len(appended["default"])

Init ==
  /\ heap = [id \in {"supplied", "default"} |-> NoWindow]
  /\ manager = NoManager
  /\ last = Idle
  /\ appended = [id \in {"supplied", "default"} |-> <<>>]
  /\ cfg = NoConfig
  /\ clamped = NoConfig
  /\ reclamped = NoConfig
  /\ performance = NoPerformanceManager
  /\ recommended = Quiet
  /\ demo = NoRun

\* The caller runs RollingWindow(capacity).
NewRollingWindow(capacity) ==
  /\ ~manager.constructed
  /\ heap["supplied"] = NoWindow
  /\ heap' = IF RollingWindow(capacity).ok
               THEN [heap EXCEPT !["supplied"] = RollingWindow(capacity).val]
               ELSE heap
  /\ last' = [Idle EXCEPT !.op = "RollingWindow", !.capacity = capacity,
                          !.out = IF RollingWindow(capacity).ok
                                    THEN Ok(NoValue)
                                    ELSE RollingWindow(capacity)]
  /\ UNCHANGED <<manager, appended, cfg, clamped, reclamped, performance, recommended, demo>>

\* The caller runs window.append(sample, config) on its own window, before
\* it hands the window to a manager.
CallerAppend(sample, config) ==
  /\ ~manager.constructed
  /\ heap["supplied"] # NoWindow
  /\ TotalCalls < MaxCalls
  /\ heap' = [heap EXCEPT !["supplied"] = append(@, sample, config)]
  /\ appended' = [appended EXCEPT !["supplied"] = Append(@, <<sample, config>>)]
  /\ last' = [Idle EXCEPT !.op = "append", !.sample = sample, !.config = config]
  /\ UNCHANGED <<manager, cfg, clamped, reclamped, performance, recommended, demo>>

\* The caller runs AdaptiveQualityManager(window=..., regressor=
\* RidgeRegressor(alpha), target_frame_time_ms=..., margin_tolerance_ms=...),
\* passing the window it constructed, or None when it constructed none.
NewManager(window_arg, alpha, target, tolerance) ==
  /\ ~manager.constructed
  /\ window_arg = "supplied" <=> heap["supplied"] # NoWindow
  /\ LET made == AdaptiveQualityManager(window_arg, heap["supplied"],
                                        RidgeRegressor(alpha), target, tolerance)
     IN  /\ manager' = made.self
         /\ heap' = [heap EXCEPT !["default"] = made.default]
  /\ last' = [Idle EXCEPT !.op = "AdaptiveQualityManager"]
  /\ UNCHANGED <<appended, cfg, clamped, reclamped, performance, recommended, demo>>

\* The caller runs manager.update(sample, config).  An exception leaves the
\* manager usable; what update did before raising stays done.
Update(sample, config) ==
  /\ manager.constructed
  /\ TotalCalls < MaxCalls
  /\ \E done \in {update(manager, heap[manager.window], sample, config)} :
         /\ heap' = [heap EXCEPT ![manager.window] = done.window]
         /\ manager' = [manager EXCEPT !.regressor = done.regressor]
         /\ last' = [op |-> "update", capacity |-> 0,
                     sample |-> sample, config |-> config,
                     out |-> done.out,
                     regressor_before |-> manager.regressor,
                     fit_args |-> done.fit_args,
                     predict_args |-> done.predict_args,
                     prediction |-> done.prediction,
                     direction |-> done.direction]
  /\ appended' = [appended EXCEPT ![manager.window] = Append(@, <<sample, config>>)]
  /\ UNCHANGED <<cfg, clamped, reclamped, performance, recommended, demo>>

Next ==
  \/ \E capacity \in Capacities : NewRollingWindow(capacity)
  \/ \E sample \in Samples, config \in Configs : CallerAppend(sample, config)
  \/ \E window_arg \in {"none", "supplied"}, alpha \in Alphas,
        target \in Targets, tolerance \in Tolerances :
       NewManager(window_arg, alpha, target, tolerance)
  \/ \E sample \in Samples, config \in Configs : Update(sample, config)

Spec == Init /\ [][Next]_vars

(***************************************************************************)
(* SpecWarm: update applied once to a manager that was constructed over a  *)
(* supplied window already holding WarmLength pairs, for every sample of   *)
(* WarmSamples and every config of AllConfigs.  The samples are chosen so  *)
(* that no prediction falls exactly on +-tolerance, where the float        *)
(* comparison of the code depends on rounding.                             *)
(***************************************************************************)
WarmLength == 4
WarmConfig == GraphicsConfig(950, "high", "long")
WarmSamples == {TelemetrySample(0, 0, 0, ft) : ft \in 1..5}
AllConfigs ==
  {GraphicsConfig(rs, ao, sd) :
     rs \in {300, 500, 800, 853, 950, 970, 1000, 1200},
     ao \in {"off", "low", "medium", "high", "ultra"},
     sd \in {"short", "medium", "long", "distant"}}

Histories == [1..WarmLength -> Samples]

RECURSIVE AppendAll(_, _, _)
AppendAll(window, history, i) ==
  IF i > Len(history) THEN window
  ELSE AppendAll(append(window, history[i], WarmConfig), history, i + 1)

InitWarm ==
  \E history \in Histories, target \in Targets, tolerance \in Tolerances :
    LET supplied == AppendAll(RollingWindow(WarmUpSamples).val, history, 1)
    IN  /\ heap = [id \in {"supplied", "default"} |->
                     IF id = "supplied" THEN supplied ELSE NoWindow]
        /\ manager = AdaptiveQualityManager("supplied", supplied,
                                            RidgeRegressor(ROne),
                                            target, tolerance).self
        /\ last = [Idle EXCEPT !.op = "AdaptiveQualityManager"]
        /\ appended = [id \in {"supplied", "default"} |->
                         IF id = "supplied"
                           THEN [i \in 1..WarmLength |-> <<history[i], WarmConfig>>]
                           ELSE <<>>]
        /\ cfg = NoConfig
        /\ clamped = NoConfig
        /\ reclamped = NoConfig
        /\ performance = NoPerformanceManager
        /\ recommended = Quiet
        /\ demo = NoRun

NextWarm ==
  \E sample \in WarmSamples, config \in AllConfigs : Update(sample, config)

SpecWarm == InitWarm /\ [][NextWarm]_vars

(***************************************************************************)
(* SpecClamp: clamp applied to every config of AllConfigs, and again to    *)
(* its own result.                                                         *)
(***************************************************************************)
InitClamp ==
  /\ heap = [id \in {"supplied", "default"} |-> NoWindow]
  /\ manager = NoManager
  /\ last = Idle
  /\ appended = [id \in {"supplied", "default"} |-> <<>>]
  /\ cfg \in AllConfigs
  /\ clamped = NoConfig
  /\ reclamped = NoConfig
  /\ performance = NoPerformanceManager
  /\ recommended = Quiet
  /\ demo = NoRun

\* clamped = cfg.clamp()
ClampConfig ==
  /\ clamped = NoConfig
  /\ clamped' = clamp(cfg)
  /\ UNCHANGED <<heap, manager, last, appended, cfg, reclamped, performance, recommended, demo>>

\* reclamped = clamped.clamp()
ClampAgain ==
  /\ clamped # NoConfig
  /\ reclamped = NoConfig
  /\ reclamped' = clamp(clamped)
  /\ UNCHANGED <<heap, manager, last, appended, cfg, clamped, performance, recommended, demo>>

NextClamp == ClampConfig \/ ClampAgain

SpecClamp == InitClamp /\ [][NextClamp]_vars

(***************************************************************************)
(* SpecRegressor: a RidgeRegressor used on its own, fit and predict called *)
(* in any order.  The regressor is held in manager.regressor, the call     *)
(* and its outcome in last.                                                *)
(***************************************************************************)
Dataset(features, targets) == [features |-> features, targets |-> targets]

\* Calls of fit: no rows, ragged rows, well-formed data with one and two
\* features, a constant column, and a single row.
FitCalls ==
  {Dataset(<<>>, <<>>),
   Dataset(<<>>, <<3>>),
   Dataset(<<<<1>>, <<1, 2>>>>, <<3, 5>>),
   Dataset(<<<<1, 2>>, <<1>>, <<0>>>>, <<3, 5, 7>>),
   Dataset(<<<<0>>, <<1>>, <<2>>>>, <<3, 5, 7>>),
   Dataset(<<<<0>>, <<1>>>>, <<5, 3>>),
   Dataset(<<<<2>>, <<0>>, <<1>>>>, <<3, 7, 5>>),
   Dataset(<<<<1, 2>>, <<2, 1>>, <<0, 1>>, <<2, 2>>>>, <<3, 5, 7, 5>>),
   Dataset(<<<<1>>, <<1>>>>, <<5, 5>>),
   Dataset(<<<<1, 0>>, <<0, 1>>, <<1, 1>>>>, <<3, 5, 7>>),
   Dataset(<<<<1>>>>, <<5>>)}

PredictCalls == {<<>>, <<0>>, <<1>>, <<2>>, <<1, 2>>, <<1, 1>>}

InitRegressor ==
  /\ heap = [id \in {"supplied", "default"} |-> NoWindow]
  /\ \E alpha \in Alphas :
       manager = [NoManager EXCEPT !.regressor = RidgeRegressor(alpha)]
  /\ last = [Idle EXCEPT !.op = "RidgeRegressor"]
  /\ appended = [id \in {"supplied", "default"} |-> <<>>]
  /\ cfg = NoConfig
  /\ clamped = NoConfig
  /\ reclamped = NoConfig
  /\ performance = NoPerformanceManager
  /\ recommended = Quiet
  /\ demo = NoRun

\* The caller runs regressor.fit(features, targets).
Fit(features, targets) ==
  /\ \E done \in {fit(manager.regressor, features, targets)} :
       /\ manager' = [manager EXCEPT !.regressor = done.self]
       /\ last' = [Idle EXCEPT !.op = "fit", !.out = done.out,
                               !.regressor_before = manager.regressor,
                               !.fit_args = <<Dataset(features, targets)>>]
  /\ UNCHANGED <<heap, appended, cfg, clamped, reclamped, performance, recommended, demo>>

\* The caller runs regressor.predict(features).
Predict(features) ==
  /\ \E done \in {predict(manager.regressor, features)} :
       last' = [Idle EXCEPT !.op = "predict", !.out = done,
                            !.regressor_before = manager.regressor,
                            !.predict_args = <<features>>,
                            !.prediction = IF done.ok THEN done.val ELSE NoCall]
  /\ UNCHANGED <<heap, manager, appended, cfg, clamped, reclamped, performance, recommended, demo>>

NextRegressor ==
  \/ \E call \in FitCalls : Fit(call.features, call.targets)
  \/ \E features \in PredictCalls : Predict(features)

SpecRegressor == InitRegressor /\ [][NextRegressor]_vars

(***************************************************************************)
(* SpecFit: one fit on a fresh regressor, for every dataset of up to       *)
(* MaxRows uniform rows with as many targets, followed by predict calls.   *)
(***************************************************************************)
MaxRows == 3
FeatureValues == {0, 1, 2}
TargetValues == {3, 5, 7}
Rows1 == {<<x>> : x \in FeatureValues}
Rows2 == {<<1, 0>>, <<1, 2>>, <<2, 4>>}

Datasets ==
  UNION {{Dataset(features, targets) :
            features \in [1..n -> Rows1] \cup [1..n -> Rows2],
            targets \in [1..n -> TargetValues]} : n \in 0..MaxRows}

NextFit ==
  \/ \E call \in Datasets :
       last.op = "RidgeRegressor" /\ Fit(call.features, call.targets)
  \/ \E features \in PredictCalls :
       last.op # "RidgeRegressor" /\ Predict(features)

SpecFit == InitRegressor /\ [][NextFit]_vars

(***************************************************************************)
(* SpecRun: a manager over a supplied window of capacity 5 that already    *)
(* holds WarmLength pairs, updated several times in a row; cfg is the      *)
(* config the caller holds, the one returned by the latest update that     *)
(* returned.  SpecOverload and SpecHeadroom are the closed loop: the       *)
(* caller passes cfg back in, under samples that are all over, or all      *)
(* under, the target by more than the tolerance.                           *)
(***************************************************************************)
RunSteps == 3
RunSamples == {TelemetrySample(0, 0, 0, ft) : ft \in {1, 3, 5}}
RunConfigs == {GraphicsConfig(950, "high", "long"),
               GraphicsConfig(800, "off", "medium"),
               GraphicsConfig(1200, "ultra", "distant")}
RunHistories == {history \in Histories : \A i \in 1..WarmLength : history[i] = history[1]}

UpdatesMade == Len(appended[manager.window]) - WarmLength

InitRun ==
  \E history \in RunHistories, alpha \in Alphas,
     target \in Targets, tolerance \in Tolerances :
    LET supplied == AppendAll(RollingWindow(WarmUpSamples).val, history, 1)
    IN  /\ heap = [id \in {"supplied", "default"} |->
                     IF id = "supplied" THEN supplied ELSE NoWindow]
        /\ manager = AdaptiveQualityManager("supplied", supplied,
                                            RidgeRegressor(alpha),
                                            target, tolerance).self
        /\ last = [Idle EXCEPT !.op = "AdaptiveQualityManager"]
        /\ appended = [id \in {"supplied", "default"} |->
                         IF id = "supplied"
                           THEN [i \in 1..WarmLength |-> <<history[i], WarmConfig>>]
                           ELSE <<>>]
        /\ cfg = WarmConfig
        /\ clamped = NoConfig
        /\ reclamped = NoConfig
        /\ performance = NoPerformanceManager
        /\ recommended = Quiet
        /\ demo = NoRun

\* The caller runs cfg = manager.update(sample, config); an exception
\* leaves cfg as it was.
Step(sample, config, limit) ==
  /\ manager.constructed
  /\ UpdatesMade < limit
  /\ \E done \in {update(manager, heap[manager.window], sample, config)} :
         /\ heap' = [heap EXCEPT ![manager.window] = done.window]
         /\ manager' = [manager EXCEPT !.regressor = done.regressor]
         /\ last' = [op |-> "update", capacity |-> 0,
                     sample |-> sample, config |-> config,
                     out |-> done.out,
                     regressor_before |-> manager.regressor,
                     fit_args |-> done.fit_args,
                     predict_args |-> done.predict_args,
                     prediction |-> done.prediction,
                     direction |-> done.direction]
         /\ cfg' = IF done.out.ok THEN done.out.val ELSE cfg
  /\ appended' = [appended EXCEPT ![manager.window] = Append(@, <<sample, config>>)]
  /\ UNCHANGED <<clamped, reclamped, performance, recommended, demo>>

NextRun ==
  \E sample \in RunSamples, config \in RunConfigs : Step(sample, config, RunSteps)

SpecRun == InitRun /\ [][NextRun]_vars

\* The closed loop: the caller starts from a clamped config on the 0.05
\* grid and passes the config it holds to every update.
LoopSteps == 16
GridConfigs ==
  {GraphicsConfig(500 + 50 * i, ao, sd) :
     i \in 0..10,
     ao \in {"off", "low", "medium", "high"},
     sd \in {"short", "medium", "long"}}
OverloadSamples == {TelemetrySample(0, 0, 0, 5)}
HeadroomSamples == {TelemetrySample(0, 0, 0, 1)}

InitLoop ==
  \E history \in RunHistories, alpha \in Alphas,
     target \in Targets, tolerance \in Tolerances :
    LET supplied == AppendAll(RollingWindow(WarmUpSamples).val, history, 1)
    IN  /\ heap = [id \in {"supplied", "default"} |->
                     IF id = "supplied" THEN supplied ELSE NoWindow]
        /\ manager = AdaptiveQualityManager("supplied", supplied,
                                            RidgeRegressor(alpha),
                                            target, tolerance).self
        /\ last = [Idle EXCEPT !.op = "AdaptiveQualityManager"]
        /\ appended = [id \in {"supplied", "default"} |->
                         IF id = "supplied"
                           THEN [i \in 1..WarmLength |-> <<history[i], WarmConfig>>]
                           ELSE <<>>]
        /\ cfg \in GridConfigs
        /\ clamped = NoConfig
        /\ reclamped = NoConfig
        /\ performance = NoPerformanceManager
        /\ recommended = Quiet
        /\ demo = NoRun

NextOverload == \E sample \in OverloadSamples : Step(sample, cfg, LoopSteps)
NextHeadroom == \E sample \in HeadroomSamples : Step(sample, cfg, LoopSteps)

SpecOverload == InitLoop /\ [][NextOverload]_vars
SpecHeadroom == InitLoop /\ [][NextHeadroom]_vars

(***************************************************************************)
(* AdaptivePerformanceManager: construction, then update and reset in any  *)
(* order.  recommended.latest is the confidence of the most recent         *)
(* recommendation returned since construction or the last reset,           *)
(* recommended.previous the one before it, recommended.resets the number   *)
(* of reset calls so far.                                                  *)
(***************************************************************************)
MaxPerfCalls == 3
PerfTargets == {RInt(0), RInt(60), RInt(90)}
PerfHistories == {0, 1, 3, 8}
PerfSamples ==
  {PerformanceSample(RInt(50), RInt(20), RInt(50), RInt(50)),
   PerformanceSample(RInt(58), RInt(17), RInt(40), RInt(40)),
   PerformanceSample(RInt(59), RInt(17), RInt(95), RInt(90)),
   PerformanceSample(RInt(60), RInt(16), RInt(50), RInt(50)),
   PerformanceSample(RInt(120), RInt(8), RInt(30), RInt(30)),
   PerformanceSample(RInt(1), RInt(1000), RInt(100), RInt(100)),
   PerformanceSample(RInt(600), RInt(1), RInt(0), RInt(0)),
   PerformanceSample(RInt(0), RInt(16), RInt(50), RInt(50)),
   PerformanceSample(RInt(60), RInt(16), RInt(101), RInt(50))}
Snapshots ==
  {HardwareSnapshot(None, RInt(20)), HardwareSnapshot(RInt(250), None)}

\* What the collector may report; without a collector nothing is asked.
Reported(self) ==
  IF self._telemetry THEN Snapshots ELSE {HardwareSnapshot(None, None)}

AfterUpdate(done, sample) ==
  [op |-> "update", sample |-> sample, out |-> done.out,
   previous |-> recommended.latest,
   latest |-> IF done.out.ok THEN done.out.val.confidence
              ELSE recommended.latest,
   calls |-> recommended.calls + 1, resets |-> recommended.resets]

InitPerformance ==
  /\ heap = [id \in {"supplied", "default"} |-> NoWindow]
  /\ manager = NoManager
  /\ last = Idle
  /\ appended = [id \in {"supplied", "default"} |-> <<>>]
  /\ cfg = NoConfig
  /\ clamped = NoConfig
  /\ reclamped = NoConfig
  /\ performance = NoPerformanceManager
  /\ recommended = Quiet
  /\ demo = NoRun

\* The caller runs AdaptivePerformanceManager(target_fps, history,
\* FeatureFlags(hardware_telemetry), collector).
NewPerformanceManager(target_fps, history, hardware_telemetry) ==
  /\ ~performance.constructed
  /\ recommended.op = "none"
  /\ \E made \in {AdaptivePerformanceManager(target_fps, history,
                                             hardware_telemetry, TRUE)} :
       /\ performance' = IF made.ok THEN made.val ELSE performance
       /\ recommended' = [Quiet EXCEPT !.op = "AdaptivePerformanceManager",
                                       !.out = IF made.ok THEN Ok(NoValue)
                                               ELSE made]
  /\ UNCHANGED <<heap, manager, last, appended, cfg, clamped, reclamped, demo>>

\* The caller runs manager.update(sample); snapshot is what the collector
\* reports during the call.
PerformanceUpdate(sample, snapshot) ==
  /\ performance.constructed
  /\ recommended.calls < MaxPerfCalls
  /\ \E done \in {AdaptivePerformanceManager_update(performance, sample,
                                                    snapshot)} :
       /\ performance' = done.self
       /\ recommended' = AfterUpdate(done, sample)
  /\ UNCHANGED <<heap, manager, last, appended, cfg, clamped, reclamped, demo>>

\* The caller runs manager.reset().
PerformanceReset ==
  /\ performance.constructed
  /\ recommended.calls < MaxPerfCalls
  /\ performance' = AdaptivePerformanceManager_reset(performance)
  /\ recommended' = [Quiet EXCEPT !.op = "reset",
                                  !.calls = recommended.calls + 1,
                                  !.resets = recommended.resets + 1]
  /\ UNCHANGED <<heap, manager, last, appended, cfg, clamped, reclamped, demo>>

NextPerformance ==
  \/ \E target_fps \in PerfTargets, history \in PerfHistories,
        hardware_telemetry \in BOOLEAN :
       NewPerformanceManager(target_fps, history, hardware_telemetry)
  \/ \E sample \in PerfSamples, snapshot \in Reported(performance) :
       PerformanceUpdate(sample, snapshot)
  \/ PerformanceReset

SpecPerformance == InitPerformance /\ [][NextPerformance]_vars

(***************************************************************************)
(* main.py: a helper is built, then _run runs step by step.  The helper is *)
(* the one _build_helper makes, or an ArenaHelper the caller makes with an *)
(* audio analyzer of its choice.  Another thread (the                      *)
(* GUI's, in main) may set the stop event at any moment of the run; a      *)
(* broadcaster's start may fail, a client send may fail in async_publish,  *)
(* and the task may be cancelled while it sleeps.  A run with steps <= 0   *)
(* has no end of its own and is followed for MaxIterations iterations.     *)
(***************************************************************************)
MaxIterations == 3
StepsArgs == -1..MaxIterations
Intervals == {0, 1}
StopEvents == {"none", "clear", "set"}
DefaultTargetFps == 60
DefaultHistory == 180

quality_vars == <<heap, manager, last, appended, cfg, clamped, reclamped>>

Analyzers == {"none", "AudioAnalyzer", "keyword_analyzer"}

Running == demo.pc \notin {"none", "unbuilt", "built", "returned", "raised"}

InitDemo ==
  /\ heap = [id \in {"supplied", "default"} |-> NoWindow]
  /\ manager = NoManager
  /\ last = Idle
  /\ appended = [id \in {"supplied", "default"} |-> <<>>]
  /\ cfg = NoConfig
  /\ clamped = NoConfig
  /\ reclamped = NoConfig
  /\ performance = NoPerformanceManager
  /\ recommended = Quiet
  /\ demo = NoRun

\* ArenaHelper(audio=..., feature_flags=flags, broadcaster=broadcaster) with
\* the flags and broadcaster of _build_helper(args); audio = "none" is
\* _build_helper itself, which passes no analyzer.  The helper makes its own
\* AdaptivePerformanceManager, with a telemetry collector when hardware
\* telemetry is enabled.  websockets says whether the websockets library is
\* installed.
BuildHelper(audio, enable_hw, enable_websocket, websockets) ==
  /\ demo.pc = "none"
  /\ \E made \in {ArenaHelper(audio)} :
       IF made.ok
         THEN /\ performance' =
                   AdaptivePerformanceManager(RInt(DefaultTargetFps),
                                              DefaultHistory,
                                              enable_hw, enable_hw).val
              /\ demo' = [demo EXCEPT
                            !.pc = "built",
                            !.audio = made.val,
                            !.enable_hw = enable_hw,
                            !.broadcaster =
                               IF enable_websocket
                                 THEN [NoBroadcaster EXCEPT
                                         !.present = TRUE,
                                         !._websockets = websockets]
                                 ELSE NoBroadcaster]
         ELSE /\ performance' = performance
              /\ demo' = [demo EXCEPT !.pc = "unbuilt",
                                      !.pending = "TypeError"]
  /\ UNCHANGED <<quality_vars, recommended>>

\* _run(helper, broadcaster, args, stop_event) is called.
CallRun(steps, interval, stop_event) ==
  /\ demo.pc = "built"
  /\ demo' = [demo EXCEPT !.pc = "start", !.steps = steps,
                          !.interval = interval, !.stop_event = stop_event,
                          !.set_at_call = (stop_event = "set")]
  /\ UNCHANGED <<quality_vars, performance, recommended>>

\* if broadcaster: await broadcaster.start()  -- before the try block.
Start(fails) ==
  /\ demo.pc = "start"
  /\ fails => demo.broadcaster.present /\ demo.broadcaster._websockets
  /\ demo' = IF ~demo.broadcaster.present
               THEN [demo EXCEPT !.pc = "loop"]
             ELSE IF fails
               THEN [demo EXCEPT !.pc = "raised", !.pending = "OSError"]
             ELSE [demo EXCEPT !.pc = "loop",
                               !.broadcaster.started = TRUE,
                               !.broadcaster._server =
                                  demo.broadcaster._websockets]
  /\ UNCHANGED <<quality_vars, performance, recommended>>

\* The top of the loop: the two break tests.
LoopTop ==
  /\ demo.pc = "loop"
  /\ LeavesLoop(demo.stop_event, demo.steps, demo.step)
       \/ demo.step < MaxIterations
  /\ demo' = [demo EXCEPT !.pc = IF LeavesLoop(demo.stop_event, demo.steps,
                                               demo.step)
                                   THEN "finally" ELSE "frame"]
  /\ UNCHANGED <<quality_vars, performance, recommended>>

\* helper.process_frame(_demo_frame(step))
ProcessFrame ==
  /\ demo.pc = "frame"
  /\ demo' = [demo EXCEPT !.pc = "audio", !.frames = @ + 1]
  /\ UNCHANGED <<quality_vars, performance, recommended>>

\* helper.process_audio(_demo_audio(step, 512))
ProcessAudio ==
  /\ demo.pc = "audio"
  /\ demo' = [demo EXCEPT !.pc = "performance", !.audios = @ + 1,
                          !._last_audio = AudioReport(demo.audio)]
  /\ UNCHANGED <<quality_vars, performance, recommended>>

\* helper.process_performance(_demo_performance(step))
ProcessPerformance(snapshot) ==
  /\ demo.pc = "performance"
  /\ \E sample \in {_demo_performance(demo.step)} :
     \E done \in {AdaptivePerformanceManager_update(performance, sample,
                                                    snapshot)} :
       /\ performance' = done.self
       /\ recommended' = AfterUpdate(done, sample)
       /\ demo' = IF done.out.ok
                    THEN [demo EXCEPT !.pc = "session",
                                      !._last_performance = done.out.val]
                    ELSE [demo EXCEPT !.pc = "finally",
                                      !.pending = "ValueError"]
  /\ UNCHANGED quality_vars

\* helper.record_session(_demo_session(step))
RecordSession ==
  /\ demo.pc = "session"
  /\ demo' = [demo EXCEPT !.pc = "payload", !.sessions = @ + 1]
  /\ UNCHANGED <<quality_vars, performance, recommended>>

\* payload = helper.overlay_payload(), which composes the commentary and
\* then publishes to the helper's broadcaster, and the optional print.
OverlayPayload ==
  /\ demo.pc = "payload"
  /\ demo' = IF _compose_commentary(demo._last_audio).ok
               THEN [demo EXCEPT
                       !.pc = "publish",
                       !.payloads = @ + 1,
                       !.broadcaster._buffer =
                          IF demo.broadcaster.present
                            THEN Min(@ + 1, WebsocketBuffer) ELSE @]
               ELSE [demo EXCEPT !.pc = "finally",
                                 !.pending = "AttributeError"]
  /\ UNCHANGED <<quality_vars, performance, recommended>>

\* if broadcaster: await broadcaster.async_publish(payload)
AsyncPublish(fails) ==
  /\ demo.pc = "publish"
  /\ fails => /\ demo.broadcaster.present
              /\ demo.broadcaster._server
              /\ demo.broadcaster._websockets
  /\ demo' = IF ~demo.broadcaster.present
               THEN [demo EXCEPT !.pc = "advance"]
               ELSE [demo EXCEPT
                       !.pc = IF fails THEN "finally" ELSE "advance",
                       !.pending = IF fails THEN "ConnectionClosed" ELSE @,
                       !.broadcaster._buffer = Min(@ + 1, WebsocketBuffer)]
  /\ UNCHANGED <<quality_vars, performance, recommended>>

\* step += 1, the second look at the stop event, and the choice to sleep.
Advance ==
  /\ demo.pc = "advance"
  /\ demo' = [demo EXCEPT
                !.step = @ + 1,
                !.pc = IF demo.stop_event = "set" THEN "finally"
                       ELSE IF demo.interval > 0 THEN "sleep"
                       ELSE "loop"]
  /\ UNCHANGED <<quality_vars, performance, recommended>>

\* await asyncio.sleep(args.interval)
Sleep(cancelled) ==
  /\ demo.pc = "sleep"
  /\ demo' = IF cancelled
               THEN [demo EXCEPT !.pc = "finally",
                                 !.pending = "CancelledError",
                                 !.cancelled = TRUE]
               ELSE [demo EXCEPT !.pc = "loop"]
  /\ UNCHANGED <<quality_vars, performance, recommended>>

\* finally: if broadcaster: await broadcaster.stop()
Finally ==
  /\ demo.pc = "finally"
  /\ demo' = [demo EXCEPT
                !.pc = IF demo.pending = "none" THEN "returned" ELSE "raised",
                !.broadcaster = IF demo.broadcaster.present
                                  THEN BroadcasterStopped(@) ELSE @]
  /\ UNCHANGED <<quality_vars, performance, recommended>>

\* Another thread runs stop_event.set().
SetStopEvent ==
  /\ Running
  /\ demo.stop_event = "clear"
  /\ demo' = [demo EXCEPT !.stop_event = "set"]
  /\ UNCHANGED <<quality_vars, performance, recommended>>

NextDemo ==
  \/ \E audio \in Analyzers, enable_hw \in BOOLEAN,
        enable_websocket \in BOOLEAN, websockets \in BOOLEAN :
       BuildHelper(audio, enable_hw, enable_websocket, websockets)
  \/ \E steps \in StepsArgs, interval \in Intervals, stop_event \in StopEvents :
       CallRun(steps, interval, stop_event)
  \/ \E fails \in BOOLEAN : Start(fails)
  \/ LoopTop
  \/ ProcessFrame
  \/ ProcessAudio
  \/ \E snapshot \in Reported(performance) : ProcessPerformance(snapshot)
  \/ RecordSession
  \/ OverlayPayload
  \/ \E fails \in BOOLEAN : AsyncPublish(fails)
  \/ Advance
  \/ \E cancelled \in BOOLEAN : Sleep(cancelled)
  \/ Finally
  \/ SetStopEvent

SpecDemo == InitDemo /\ [][NextDemo]_vars

(***************************************************************************)
(* Properties.                                                             *)
(***************************************************************************)
IsSafe(config) ==
  /\ config.resolution_scale >= 500
  /\ config.resolution_scale <= 1000
  /\ config.ambient_occlusion \in {"off", "low", "medium", "high"}
  /\ config.shadow_distance \in {"short", "medium", "long"}

\* Position of a level on its ladder, 0 for an unknown value.
Rank(levels, value) ==
  IF value \in Range(levels)
    THEN CHOOSE i \in 1..Len(levels) : levels[i] = value
    ELSE 0

ManagerWindow == heap[manager.window]
IsUpdate == last.op = "update"
AfterWarmUp == IsUpdate /\ len(ManagerWindow) >= 5
ObservedMargin == manager.target_frame_time_ms - last.sample.frame_time_ms
Returned == last.out.ok
NoRegressorCall == last.fit_args = NoCall /\ last.predict_args = NoCall

\* C1 (as claimed): every update call returns a config, and the config is
\* within the safe bounds, whatever the sample and the input config are.
C1_UpdateAlwaysReturnsSafeConfig ==
  IsUpdate => (Returned /\ IsSafe(last.out.val))

\* C2: clamp(c) is within the safe bounds for every c, and clamping the
\* result again returns the same config.
C2_ClampIdempotentAndSafe ==
  /\ clamped # NoConfig => IsSafe(clamped)
  /\ reclamped # NoConfig => (reclamped = clamped /\ IsSafe(reclamped))

C2_Witness ==
  /\ reclamped # NoConfig
  /\ cfg.resolution_scale > 1000
  /\ cfg.ambient_occlusion = "ultra"
  /\ cfg.shadow_distance = "distant"
  /\ clamped # cfg

ClampedAsClaimed(config, result) ==
  /\ config.resolution_scale > 1000 => result.resolution_scale = 1000
  /\ config.resolution_scale < 500 => result.resolution_scale = 500
  /\ (config.resolution_scale >= 500 /\ config.resolution_scale <= 1000)
       => result.resolution_scale = config.resolution_scale
  /\ result.ambient_occlusion =
       IF config.ambient_occlusion \in {"off", "low", "medium", "high"}
         THEN config.ambient_occlusion ELSE "medium"
  /\ result.shadow_distance =
       IF config.shadow_distance \in {"short", "medium", "long"}
         THEN config.shadow_distance ELSE "medium"
  /\ IsSafe(config) => result = config

\* C3: a clamp call always yields a config: resolution_scale above 1.0
\* becomes 1.0, below 0.5 becomes 0.5, an unknown ambient_occlusion or
\* shadow_distance becomes "medium", every field already in range is kept
\* (the identity on safe configs), and the receiver is left as it was.
C3_ClampCoercesAndKeepsReceiver ==
  [][clamped' # clamped => (cfg' = cfg /\ ClampedAsClaimed(cfg, clamped'))]_vars

C3_Witness ==
  /\ clamped # NoConfig
  /\ cfg.resolution_scale < 500
  /\ cfg.ambient_occlusion = "ultra"
  /\ cfg.shadow_distance = "long"
  /\ clamped = GraphicsConfig(500, "medium", "long")

\* The last n pairs passed to append, each stored with its config clamped.
LastAppended(id, n) ==
  [i \in 1..n |->
     <<appended[id][Len(appended[id]) - n + i][1],
       clamp(appended[id][Len(appended[id]) - n + i][2])>>]

WindowHoldsLatest(id) ==
  heap[id] # NoWindow =>
    /\ len(heap[id]) = Min(Len(appended[id]), heap[id]._capacity)
    /\ items(heap[id]) = LastAppended(id, Min(Len(appended[id]), heap[id]._capacity))

\* C4: after k appends to a window of capacity c the window holds min(k, c)
\* pairs, and they are the last min(k, c) pairs appended, oldest first (so
\* an append at capacity evicts the oldest pair); no step changes the
\* capacity of a window.
C4_WindowKeepsLastPairsInOrder ==
  [][\A id \in {"supplied", "default"} :
       /\ WindowHoldsLatest(id)'
       /\ heap[id] # NoWindow => heap'[id]._capacity = heap[id]._capacity]_vars

C4_Witness ==
  /\ heap["supplied"] # NoWindow
  /\ Len(appended["supplied"]) > heap["supplied"]._capacity + 1
  /\ len(heap["supplied"]) = heap["supplied"]._capacity
  /\ last.op = "update"

\* C5: RollingWindow(capacity) raises and leaves no window when
\* capacity <= 0, and constructs an empty window of that capacity when
\* capacity >= 1.
C5_ConstructionRejectsNonPositiveCapacity ==
  last.op = "RollingWindow" =>
    /\ last.capacity <= 0 => (~last.out.ok /\ heap["supplied"] = NoWindow)
    /\ last.capacity >= 1 =>
         /\ last.out.ok
         /\ heap["supplied"] = [_capacity |-> last.capacity, _buffer |-> <<>>]

C5_Witness ==
  /\ last.op = "RollingWindow"
  /\ last.capacity = 0
  /\ ~last.out.ok
  /\ heap["supplied"] = NoWindow

\* C6: an update after whose append the manager's window holds fewer than
\* 5 pairs returns config.clamp() and calls neither fit nor predict, so the
\* regressor is as it was before the call; an update after whose append
\* the window holds 5 pairs or more calls fit.
C6_WarmUpGuard ==
  IsUpdate =>
    /\ len(ManagerWindow) < 5 =>
         /\ last.out = Ok(clamp(last.config))
         /\ NoRegressorCall
         /\ manager.regressor = last.regressor_before
    /\ len(ManagerWindow) >= 5 => last.fit_args # NoCall

C6_Witness ==
  /\ IsUpdate
  /\ len(ManagerWindow) = 4
  /\ ~IsFitted(manager.regressor)
  /\ last.config = GraphicsConfig(1200, "ultra", "distant")
  /\ last.out = Ok(GraphicsConfig(1000, "medium", "medium"))

\* C7 (as claimed): a manager constructed with a caller-supplied window of
\* capacity below 5 returns config.clamp() from every update and never
\* calls fit or predict.
C7_SmallSuppliedWindowNeverTrains ==
  (/\ IsUpdate
   /\ manager.window_arg = "supplied"
   /\ heap["supplied"]._capacity < 5)
    => (last.out = Ok(clamp(last.config)) /\ NoRegressorCall)

Overloaded ==
  AfterWarmUp /\ -ObservedMargin > manager.margin_tolerance_ms
Headroom ==
  AfterWarmUp /\ ObservedMargin > manager.margin_tolerance_ms

LowerRung(result, config) ==
  \/ Rank(ao_levels, result.ambient_occlusion)
       < Rank(ao_levels, config.ambient_occlusion)
  \/ Rank(shadow_levels, result.shadow_distance)
       < Rank(shadow_levels, config.shadow_distance)
HigherRung(result, config) ==
  \/ Rank(ao_levels, result.ambient_occlusion)
       > Rank(ao_levels, config.ambient_occlusion)
  \/ Rank(shadow_levels, result.shadow_distance)
       > Rank(shadow_levels, config.shadow_distance)
AtBottom(config) ==
  config.ambient_occlusion = "off" /\ config.shadow_distance = "short"
AtTop(config) ==
  config.ambient_occlusion = "high" /\ config.shadow_distance = "long"

ClaimedDirection(om, p, t) ==
  IF om < -t \/ (om >= -t /\ om <= t /\ RLess(p, RInt(-t))) THEN "down"
  ELSE IF om > t \/ (om >= -t /\ om <= t /\ RLess(RInt(t), p)) THEN "up"
  ELSE "hold"

StepTaken(direction, config) ==
  IF direction = "down" THEN _scale_down(config)
  ELSE IF direction = "up" THEN _scale_up(config)
  ELSE Ok(clamp(config))

\* C10: once update has a prediction p, the step it takes is the one the
\* observed margin om, p and the tolerance t determine: down iff om < -t or
\* (|om| <= t and p < -t); else up iff om > t or (|om| <= t and p > t);
\* else hold, returning config.clamp().  Outside the band om alone decides;
\* with om and p both inside the band the config is held.
C10_DirectionIsFunctionOfMarginAndPrediction ==
  (IsUpdate /\ last.predict_args # NoCall) =>
    LET om == ObservedMargin
        p == last.prediction
        t == manager.margin_tolerance_ms
    IN  /\ last.direction = ClaimedDirection(om, p, t)
        /\ last.out = StepTaken(ClaimedDirection(om, p, t), last.config)
        /\ om < -t => last.out = _scale_down(last.config)
        /\ om > t => last.out = _scale_up(last.config)
        /\ (Abs(om) <= t /\ ~RLess(p, RInt(-t)) /\ ~RLess(RInt(t), p))
             => last.out = Ok(clamp(last.config))

C10_Witness ==
  /\ IsUpdate
  /\ last.predict_args # NoCall
  /\ Abs(ObservedMargin) <= manager.margin_tolerance_ms
  /\ RLess(last.prediction, RInt(-manager.margin_tolerance_ms))
  /\ last.direction = "down"
  /\ last.config = GraphicsConfig(950, "high", "long")
  /\ last.out = Ok(GraphicsConfig(900, "high", "long"))

\* The level one rung below / above a level of a ladder.
RungBelow(levels, value) == levels[Rank(levels, value) - 1]
RungAbove(levels, value) == levels[Rank(levels, value) + 1]

\* Resolutions equal up to the rounding of the result to two decimals.
SameToTwoDecimals(a, b) == Abs(a - b) <= 5

\* The scale-down step as C11 states it, read on the coerced input.
ClaimedScaleDown(config, result) ==
  LET c == clamp(config)
  IN  IF config.resolution_scale > 800
        THEN /\ SameToTwoDecimals(result.resolution_scale,
                  clamp([config EXCEPT !.resolution_scale = @ - 50]).resolution_scale)
             /\ result.ambient_occlusion = c.ambient_occlusion
             /\ result.shadow_distance = c.shadow_distance
      ELSE IF c.ambient_occlusion # "off"
        THEN result = [c EXCEPT !.ambient_occlusion = RungBelow(ao_levels, @)]
      ELSE IF c.shadow_distance # "short"
        THEN result = [c EXCEPT !.shadow_distance = RungBelow(shadow_levels, @)]
      ELSE result = c

\* C11 (as claimed): a scale-down step applies the first applicable rule
\* and nothing else: resolution_scale lowered by 0.05 if it is above 0.8,
\* else ambient_occlusion one level down if it is not off, else
\* shadow_distance one level down if it is not short, else no change; so
\* ambient_occlusion is not lowered while resolution_scale > 0.8 and
\* shadow_distance is not lowered while ambient_occlusion is above off.
C11_ScaleDownAppliesFirstRule ==
  (IsUpdate /\ last.direction = "down") =>
    /\ Returned
    /\ ClaimedScaleDown(last.config, last.out.val)

\* The scale-up step as C12 states it, read on the coerced input.
ClaimedScaleUp(config, result) ==
  LET c == clamp(config)
  IN  IF config.resolution_scale < 1000
        THEN /\ SameToTwoDecimals(result.resolution_scale,
                  clamp([config EXCEPT !.resolution_scale = @ + 50]).resolution_scale)
             /\ result.ambient_occlusion = c.ambient_occlusion
             /\ result.shadow_distance = c.shadow_distance
      ELSE IF c.ambient_occlusion # "high"
        THEN result = [c EXCEPT !.ambient_occlusion = RungAbove(ao_levels, @)]
      ELSE IF c.shadow_distance # "long"
        THEN result = [c EXCEPT !.shadow_distance = RungAbove(shadow_levels, @)]
      ELSE result = c

\* C12 (as claimed): a scale-up step applies the first applicable rule and
\* nothing else: resolution_scale raised by 0.05 (capped at 1.0) if it is
\* below 1.0, else ambient_occlusion one level up if it is not high, else
\* shadow_distance one level up if it is not long, else no change; so
\* ambient_occlusion is not raised while resolution_scale < 1.0 and
\* shadow_distance is not raised while ambient_occlusion is below high.
C12_ScaleUpAppliesFirstRule ==
  (IsUpdate /\ last.direction = "up") =>
    /\ Returned
    /\ ClaimedScaleUp(last.config, last.out.val)

\* The rules of C11 and C12 on inputs whose ambient_occlusion and
\* shadow_distance are on the ladders.
OnLadders(config) ==
  /\ config.ambient_occlusion \in Range(ao_levels)
  /\ config.shadow_distance \in Range(shadow_levels)

ScaleStepsFollowRulesOnLadders ==
  (IsUpdate /\ OnLadders(last.config)) =>
    /\ last.direction = "down" =>
         (Returned /\ ClaimedScaleDown(last.config, last.out.val))
    /\ last.direction = "up" =>
         (Returned /\ ClaimedScaleUp(last.config, last.out.val))

\* Two levels of a ladder are adjacent.
Adjacent(levels, a, b) == Abs(Rank(levels, a) - Rank(levels, b)) = 1

\* result differs from base in at most one field: the resolution by at
\* most step thousandths, or one of the two ladders by one level.
WithinOneRung(base, result, step) ==
  \/ result = base
  \/ /\ result.resolution_scale # base.resolution_scale
     /\ Abs(result.resolution_scale - base.resolution_scale) <= step
     /\ result.ambient_occlusion = base.ambient_occlusion
     /\ result.shadow_distance = base.shadow_distance
  \/ /\ result.resolution_scale = base.resolution_scale
     /\ Adjacent(ao_levels, result.ambient_occlusion, base.ambient_occlusion)
     /\ result.shadow_distance = base.shadow_distance
  \/ /\ result.resolution_scale = base.resolution_scale
     /\ result.ambient_occlusion = base.ambient_occlusion
     /\ Adjacent(shadow_levels, result.shadow_distance, base.shadow_distance)

\* C13 (as claimed): the config an update returns differs from
\* config.clamp() of its input in at most one field and by at most one
\* rung: resolution_scale by at most 0.05, or ambient_occlusion or
\* shadow_distance by one adjacent level.
C13_Original ==
  (IsUpdate /\ Returned) => WithinOneRung(clamp(last.config), last.out.val, 50)

\* C13 (amended): ... resolution_scale by at most 0.05 plus the rounding of
\* the stepped value to two decimals, that is by less than 0.056; the rest
\* as claimed.
C13_OneFieldOneRungUpToRounding ==
  (IsUpdate /\ Returned) => WithinOneRung(clamp(last.config), last.out.val, 55)

C13_Witness ==
  /\ Overloaded
  /\ Returned
  /\ last.config = GraphicsConfig(853, "high", "long")
  /\ last.out.val = GraphicsConfig(800, "high", "long")

IsFit == last.op = "fit"
IsPredict == last.op = "predict"
FitFeatures == last.fit_args[1].features
FitTargets == last.fit_args[1].targets
IsRagged(features) ==
  \E i, j \in 1..Len(features) : Len(features[i]) # Len(features[j])

\* fit with no rows, fit with ragged rows and predict without coefficients
\* each fail with their own error, and the failing fit stores nothing.
ShapeAndNotFittedErrors ==
  /\ (IsFit /\ FitFeatures = <<>>) =>
       /\ last.out = Raise("ValueError: features must not be empty")
       /\ manager.regressor = last.regressor_before
  /\ (IsFit /\ IsRagged(FitFeatures)) =>
       /\ last.out = Raise("ValueError: feature rows must be uniform length")
       /\ manager.regressor = last.regressor_before
  /\ (IsPredict /\ last.regressor_before._coef = <<>>) =>
       last.out = Raise("RuntimeError: model must be fitted before prediction")

\* C14: fit with an empty list of feature rows and fit with rows of unequal
\* length both fail with a ValueError about the shape; predict on a
\* regressor that never completed a successful fit fails with the
\* not-fitted RuntimeError; a regressor goes from unfitted to fitted only
\* in a fit call that succeeds.
C14_ShapeErrorsAndFittedOnlyByFit ==
  [][/\ ShapeAndNotFittedErrors'
     /\ (manager.regressor._coef = <<>> /\ manager'.regressor._coef # <<>>)
          => (last'.op = "fit" /\ last'.out.ok)
     /\ (last'.op = "fit" /\ last'.out.ok) => manager'.regressor._coef # <<>>]_vars

C14_Witness ==
  /\ IsFit
  /\ FitFeatures = <<<<1>>, <<1, 2>>>>
  /\ ~last.out.ok
  /\ last.regressor_before._coef # <<>>
  /\ manager.regressor = last.regressor_before

\* intercept + sum of features[k] * weight[k], the weights being coef[2..].
RECURSIVE Weighted(_, _, _)
Weighted(coef, features, k) ==
  IF k > Len(features) THEN coef[1]
  ELSE RAdd(RMul(RInt(features[k]), coef[k + 1]), Weighted(coef, features, k + 1))

\* C15: predict(features) on a fitted regressor fails when
\* len(features) + 1 differs from the length of the stored coefficient
\* vector, otherwise returns the dot product of [1.0] + features with that
\* vector; predict leaves the stored coefficients unchanged.
C15_PredictIsDotProductOrLengthError ==
  [][(last'.op = "predict" /\ manager.regressor._coef # <<>>) =>
       /\ manager'.regressor = manager.regressor
       /\ IF Len(last'.predict_args[1]) + 1 # Len(manager.regressor._coef)
            THEN last'.out =
                   Raise("ValueError: feature vector has unexpected length")
            ELSE last'.out = Ok(Weighted(manager.regressor._coef,
                                         last'.predict_args[1], 1))]_vars

C15_Witness ==
  /\ IsPredict
  /\ last.predict_args = <<<<1, 2>>>>
  /\ Len(manager.regressor._coef) = 3
  /\ last.out.ok
  /\ last.out.val # RZero

ShapeErrors ==
  {"ValueError: features must not be empty",
   "ValueError: feature rows must be uniform length",
   "ValueError: feature vector has unexpected length",
   "IndexError",
   "RuntimeError: model must be fitted before prediction"}

\* C16: in every sequence of update calls, fit is called only with at
\* least 5 rows of exactly 4 features each and one target per row, and
\* predict only after the fit of the same update succeeded, with a
\* 4-feature vector; so no update fails with an empty-input, ragged-row,
\* length-mismatch, index or not-fitted error.
C16_UpdateCallsRegressorWellFormed ==
  IsUpdate =>
    /\ last.fit_args # NoCall =>
         /\ Len(FitFeatures) >= 5
         /\ \A i \in 1..Len(FitFeatures) : Len(FitFeatures[i]) = 4
         /\ Len(FitTargets) = Len(FitFeatures)
    /\ last.predict_args # NoCall =>
         /\ last.fit_args # NoCall
         /\ Len(manager.regressor._coef) = 5
         /\ Len(last.predict_args[1]) = 4
    /\ ~Returned => last.out.err \notin ShapeErrors

C16_Witness ==
  /\ IsUpdate
  /\ last.fit_args # NoCall
  /\ Len(FitFeatures) = 5
  /\ last.predict_args # NoCall
  /\ last.regressor_before._coef = <<>>
  /\ Returned

\* The rows are non-empty and uniform and there is one target per row.
WellFormed(features, targets) ==
  /\ features # <<>>
  /\ ~IsRagged(features)
  /\ Len(targets) = Len(features)

\* Every row has one feature x and the target 2 * x + 3, and two rows
\* differ in x.
IsLinear2x3(features, targets) ==
  /\ WellFormed(features, targets)
  /\ \A i \in 1..Len(features) :
       Len(features[i]) = 1 /\ targets[i] = 2 * features[i][1] + 3
  /\ \E i, j \in 1..Len(features) : features[i][1] # features[j][1]

\* C17 (as claimed): fit with alpha = 0 on a dataset with y = 2 * x + 3
\* stores the coefficients [3, 2], so that predict([x]) returns 2 * x + 3
\* for every x.
C17_FitRecoversLine ==
  (IsFit /\ last.regressor_before.alpha = RZero
         /\ IsLinear2x3(FitFeatures, FitTargets)) =>
    /\ last.out.ok
    /\ manager.regressor._coef = <<RInt(3), RInt(2)>>
    /\ \A x \in FeatureValues :
         predict(manager.regressor, <<x>>) = Ok(RInt(2 * x + 3))

\* The normal equations as C18 states them, for rows X[i] = [1] + features[i].
XRow(features, i) == <<1>> \o features[i]
NormalMatrix(alpha, features) ==
  [j \in 1..(Len(features[1]) + 1) |->
    [k \in 1..(Len(features[1]) + 1) |->
      RAdd(RSum([i \in 1..Len(features) |->
                   RInt(XRow(features, i)[j] * XRow(features, i)[k])]),
           IF j = k /\ j # 1 THEN alpha ELSE RZero)]]
NormalRhs(features, targets) ==
  [j \in 1..(Len(features[1]) + 1) |->
    RSum([i \in 1..Len(features) |-> RInt(XRow(features, i)[j] * targets[i])])]

SolvesNormalEquations(alpha, features, targets, w) ==
  /\ Len(w) = Len(features[1]) + 1
  /\ \A j \in 1..Len(w) :
       RSum([k \in 1..Len(w) |-> RMul(NormalMatrix(alpha, features)[j][k], w[k])])
         = NormalRhs(features, targets)[j]

\* C18 (as claimed): the coefficients a fit stores solve the ridge normal
\* equations (X^T X + alpha * I') w = X^T y, X being the rows with a
\* leading 1, alpha added to every diagonal entry but the first, and entry
\* j of the right-hand side being the sum over the rows i of X[i][j] * y[i].
C18_FitSolvesNormalEquations ==
  (IsFit /\ WellFormed(FitFeatures, FitTargets) /\ last.out.ok) =>
    SolvesNormalEquations(last.regressor_before.alpha, FitFeatures, FitTargets,
                          manager.regressor._coef)

\* Determinant of a matrix of size 1, 2 or 3.
Det(m) ==
  IF Len(m) = 1 THEN m[1][1]
  ELSE IF Len(m) = 2
    THEN RSub(RMul(m[1][1], m[2][2]), RMul(m[1][2], m[2][1]))
  ELSE RAdd(RSub(RMul(m[1][1], RSub(RMul(m[2][2], m[3][3]), RMul(m[2][3], m[3][2]))),
                 RMul(m[1][2], RSub(RMul(m[2][1], m[3][3]), RMul(m[2][3], m[3][1])))),
            RMul(m[1][3], RSub(RMul(m[2][1], m[3][2]), RMul(m[2][2], m[3][1]))))

IsSingular(alpha, features) == Det(NormalMatrix(alpha, features)) = RZero

\* C19 (as claimed): when the assembled system is singular, fit fails with
\* the singular-matrix error and stores nothing; with the largest remaining
\* entry taken as pivot, that error is raised only for a singular system.
C19_SingularSystemRaisesSingularError ==
  (IsFit /\ WellFormed(FitFeatures, FitTargets)) =>
    /\ IsSingular(last.regressor_before.alpha, FitFeatures) =>
         /\ last.out = Raise("ValueError: matrix is singular")
         /\ manager.regressor = last.regressor_before
    /\ last.out = Raise("ValueError: matrix is singular") =>
         IsSingular(last.regressor_before.alpha, FitFeatures)

\* The statement of C19 for datasets with at least as many rows as
\* coefficients.
SingularDetectedWithEnoughRows ==
  (IsFit /\ WellFormed(FitFeatures, FitTargets)
         /\ Len(FitFeatures) >= Len(FitFeatures[1]) + 1) =>
    /\ IsSingular(last.regressor_before.alpha, FitFeatures) =>
         /\ last.out = Raise("ValueError: matrix is singular")
         /\ manager.regressor = last.regressor_before
    /\ last.out = Raise("ValueError: matrix is singular") =>
         IsSingular(last.regressor_before.alpha, FitFeatures)

\* C20 (as claimed): performance_margin of a sample equals
\* target_frame_time_ms - frame_time_ms: for a manager with target T it has
\* the value of the observed_margin update computes for that sample, and
\* it is positive exactly when frame_time_ms < T.
C20_PerformanceMarginIsObservedMargin ==
  IsUpdate =>
    /\ performance_margin(last.sample) = RInt(ObservedMargin)
    /\ RLess(RZero, performance_margin(last.sample))
         <=> last.sample.frame_time_ms < manager.target_frame_time_ms

\* The rows and targets the claim prescribes for a window, read off the
\* record of append calls: the last min(k, capacity) pairs, oldest first.
ClaimedRows(id) ==
  LET k == Len(appended[id])
      n == Min(k, heap[id]._capacity)
  IN  [i \in 1..n |->
        <<appended[id][k - n + i][1].fps, appended[id][k - n + i][1].gpu_temp,
          appended[id][k - n + i][1].cpu_usage,
          appended[id][k - n + i][1].frame_time_ms>>]
ClaimedTargets(id) ==
  LET k == Len(appended[id])
      n == Min(k, heap[id]._capacity)
  IN  [i \in 1..n |->
        manager.target_frame_time_ms - appended[id][k - n + i][1].frame_time_ms]

\* C21: every update after warm-up refits the regressor from scratch on
\* the whole current window: one row [fps, gpu_temp, cpu_usage,
\* frame_time_ms] and one target target_frame_time_ms - frame_time_ms per
\* stored sample, in insertion order, the newest sample included and the
\* evicted ones left out; the prediction is made for the newest sample's
\* features with the coefficients of that refit.
C21_RefitOnWholeWindowThenPredict ==
  AfterWarmUp =>
    /\ last.fit_args # NoCall
    /\ FitFeatures = ClaimedRows(manager.window)
    /\ FitTargets = ClaimedTargets(manager.window)
    /\ FitFeatures[Len(FitFeatures)] = Features(last.sample)
    /\ LET refit == fit_coef(last.regressor_before.alpha,
                             ClaimedRows(manager.window),
                             ClaimedTargets(manager.window))
       IN  /\ refit.ok <=> last.predict_args # NoCall
           /\ refit.ok =>
                /\ manager.regressor._coef = refit.val
                /\ last.predict_args = <<Features(last.sample)>>
                /\ last.prediction =
                     Weighted(refit.val, Features(last.sample), 1)

C21_Witness ==
  /\ AfterWarmUp
  /\ UpdatesMade >= 2
  /\ last.regressor_before._coef # <<>>
  /\ manager.regressor._coef # last.regressor_before._coef
  /\ last.predict_args # NoCall

\* C24 (as claimed): a RollingWindow passed to the constructor, a freshly
\* constructed empty one included, is the window the manager uses: it is
\* manager.window, after k appends it holds min(k, capacity) pairs, and no
\* training set has more rows than its capacity.
C24_SuppliedWindowIsUsed ==
  (manager.constructed /\ manager.window_arg = "supplied") =>
    /\ manager.window = "supplied"
    /\ len(heap["supplied"])
         = Min(Len(appended["supplied"]) + Len(appended["default"]),
               heap["supplied"]._capacity)
    /\ (IsUpdate /\ last.fit_args # NoCall) =>
         Len(FitFeatures) <= heap["supplied"]._capacity

\* C25: a fit call that fails (no rows, ragged rows, singular matrix)
\* leaves the stored coefficients as they were: a fitted regressor keeps
\* the coefficients of its last successful fit and answers predict with
\* them, an unfitted one stays unfitted; the coefficients change only in a
\* fit call that succeeds.
C25_FailedFitKeepsCoefficients ==
  [][/\ (last'.op = "fit" /\ ~last'.out.ok) =>
          /\ manager'.regressor._coef = manager.regressor._coef
          /\ \A features \in PredictCalls :
               predict(manager'.regressor, features)
                 = predict(manager.regressor, features)
     /\ manager'.regressor._coef # manager.regressor._coef =>
          (last'.op = "fit" /\ last'.out.ok)]_vars

C25_Witness ==
  /\ IsFit
  /\ last.out = Raise("ValueError: matrix is singular")
  /\ last.regressor_before._coef # <<>>
  /\ manager.regressor._coef = last.regressor_before._coef

\* C26: update stores the (sample, clamped config) pair before it trains,
\* so the pair of a call that fails in fit, in predict or in the ladder
\* step is stored all the same (the oldest pair evicted when the window was
\* full) and is part of the training data of every later update until it
\* is evicted; no update, failed or not, changes target_frame_time_ms or
\* margin_tolerance_ms.
C26_FailedUpdateStillStoresPair ==
  [][last'.op = "update" =>
       /\ len(ManagerWindow') = Min(len(ManagerWindow) + 1, ManagerWindow._capacity)
       /\ items(ManagerWindow')[len(ManagerWindow')]
            = <<last'.sample, clamp(last'.config)>>
       /\ \A i \in 1..(len(ManagerWindow') - 1) :
            items(ManagerWindow')[i]
              = items(ManagerWindow)[len(ManagerWindow) - (len(ManagerWindow') - 1) + i]
       /\ last'.fit_args # NoCall =>
            /\ Len(last'.fit_args[1].features) = len(ManagerWindow')
            /\ \A i \in 1..len(ManagerWindow') :
                 last'.fit_args[1].features[i]
                   = Features(items(ManagerWindow')[i][1])
       /\ manager'.target_frame_time_ms = manager.target_frame_time_ms
       /\ manager'.margin_tolerance_ms = manager.margin_tolerance_ms]_vars

\* An update that returned, trained on a window whose previous pair was
\* stored by an update that raised in the ladder step.
C26_Witness ==
  /\ IsUpdate
  /\ Returned
  /\ UpdatesMade >= 2
  /\ manager.regressor.alpha = ROne
  /\ appended[manager.window][Len(appended[manager.window]) - 1]
       = <<TelemetrySample(0, 0, 0, 5), GraphicsConfig(1200, "ultra", "distant")>>
  /\ items(ManagerWindow)[len(ManagerWindow) - 1]
       = <<TelemetrySample(0, 0, 0, 5), GraphicsConfig(1000, "medium", "medium")>>
  /\ FitFeatures[Len(FitFeatures) - 1] = <<0, 0, 0, 5>>

\* C30 (as claimed): for n >= 1 uniform rows of d features and exactly n
\* targets, fit either stores a coefficient vector of length d + 1 or
\* fails with the singular-matrix error, also when n < d + 1; it fails
\* with no other error.
C30_FitStoresOrRaisesSingular ==
  (IsFit /\ WellFormed(FitFeatures, FitTargets)) =>
    \/ last.out.ok /\ Len(manager.regressor._coef) = Len(FitFeatures[1]) + 1
    \/ last.out = Raise("ValueError: matrix is singular")

\* The config passed to the i-th update of a run, and the config the
\* caller holds after it.
InputOf(i) == appended[manager.window][WarmLength + i][2]
HeldAfter(i) == IF i < UpdatesMade THEN InputOf(i + 1) ELSE cfg

LadderBottom(config) ==
  /\ config.resolution_scale <= 800
  /\ config.ambient_occlusion = "off"
  /\ config.shadow_distance = "short"
LadderTop(config) ==
  /\ config.resolution_scale = 1000
  /\ config.ambient_occlusion = "high"
  /\ config.shadow_distance = "long"

Progressed(IsEnd(_)) ==
  \A i \in 1..UpdatesMade : IsEnd(InputOf(i)) \/ HeldAfter(i) # InputOf(i)

NotLower(a, b) ==
  /\ b.resolution_scale >= a.resolution_scale
  /\ Rank(ao_levels, b.ambient_occlusion) >= Rank(ao_levels, a.ambient_occlusion)
  /\ Rank(shadow_levels, b.shadow_distance) >= Rank(shadow_levels, a.shadow_distance)

OtherUpdate(history) ==
  update([manager EXCEPT !.regressor = RidgeRegressor(manager.regressor.alpha)],
         AppendAll(RollingWindow(WarmUpSamples).val, history, 1),
         last.sample, last.config)

OutsideBand ==
  IsUpdate /\ Abs(ObservedMargin) > manager.margin_tolerance_ms

\* C29: two managers with the same target and tolerance and different
\* window histories, both past warm-up, answer an update with the same
\* sample and config alike when the observed margin is outside
\* [-tolerance, +tolerance] and both fits succeed; history and model can
\* change the result only inside the band.
C29_HistoryIndependentOutsideBand ==
  (OutsideBand /\ last.predict_args # NoCall) =>
    \A history \in RunHistories :
      \A other \in {OtherUpdate(history)} :
        other.predict_args # NoCall => other.out = last.out

\* Outside the band, two histories that give different predictions and
\* the same returned config.
C29_Witness ==
  /\ OutsideBand
  /\ Returned
  /\ last.out.val # clamp(last.config)
  /\ \E history \in RunHistories :
       /\ OtherUpdate(history).predict_args # NoCall
       /\ OtherUpdate(history).prediction # last.prediction
       /\ OtherUpdate(history).out = last.out

\* Inside the band the history does change the result.
HistoryMattersInsideBand ==
  /\ IsUpdate /\ ~OutsideBand /\ Returned
  /\ \E history \in RunHistories :
       /\ OtherUpdate(history).out.ok
       /\ OtherUpdate(history).out # last.out

(***************************************************************************)
(* AdaptivePerformanceManager                                              *)
(***************************************************************************)
Recommended == recommended.op = "update" /\ recommended.out.ok

\* The stored history holds at least 35% of its capacity.
HistoryAtThreshold ==
  100 * Len(performance._history) >= 35 * performance.maxlen

\* The sample's fps is below 98% of target_fps.
BelowTarget ==
  RLess(recommended.sample.fps, RMul(<<49, 50>>, performance._target_fps))

\* C22: after any sequence of update and reset calls, every recommendation
\* that update returns has confidence in [0, 1], scaling_factor in
\* [0.5, 1.25] and quality_shift in {-2, -1, 0, 1}; its confidence is not
\* below that of the previous recommendation returned since the last reset,
\* and is 1.0 once the history holds at least 35% of its capacity; and when
\* the sample's fps is below 98% of target_fps, quality_shift is negative and
\* scaling_factor is at most 1.0.
C22_RecommendationRangesAndConfidence ==
  Recommended =>
    \A r \in {recommended.out.val} :
      /\ RLeq(RZero, r.confidence) /\ RLeq(r.confidence, ROne)
      /\ RLeq(<<1, 2>>, r.scaling_factor) /\ RLeq(r.scaling_factor, <<5, 4>>)
      /\ r.quality_shift \in {-2, -1, 0, 1}
      /\ recommended.previous # None
           => RLeq(recommended.previous, r.confidence)
      /\ HistoryAtThreshold => r.confidence = ROne
      /\ BelowTarget => r.quality_shift < 0 /\ RLeq(r.scaling_factor, ROne)

\* The second update after a reset, with fps below 98% of the target: it
\* lifts the confidence from below 1.0 to 1.0.
C22_Witness ==
  /\ Recommended
  /\ BelowTarget
  /\ recommended.out.val.quality_shift = -1
  /\ recommended.resets = 1
  /\ recommended.calls = 3
  /\ Len(performance._history) = 2
  /\ recommended.previous # None
  /\ RLess(recommended.previous, ROne)
  /\ recommended.out.val.confidence = ROne

(***************************************************************************)
(* main.py: _run                                                           *)
(***************************************************************************)
Exited == demo.pc \in {"returned", "raised"}

\* The run was ended from outside: the server could not start, a client
\* connection broke, or the task was cancelled.
Interrupted == demo.pending \in {"OSError", "ConnectionClosed", "CancelledError"}

NothingProcessed ==
  /\ demo.frames = 0 /\ demo.audios = 0 /\ demo.sessions = 0
  /\ demo.payloads = 0
  /\ demo._last_performance = None
  /\ performance._history = <<>>

\* Every part of an iteration has been carried out n times.
Processed(n) ==
  /\ demo.step = n
  /\ demo.frames = n /\ demo.audios = n /\ demo.sessions = n
  /\ demo.payloads = n
  /\ Len(performance._history) = n

\* What is said of _run, as a relation between a state and its successor.
RunAsClaimed ==
  /\ (demo'.pc = "frame" /\ demo.pc # "frame") => demo.stop_event # "set"
  /\ (demo.set_at_call => NothingProcessed)'
  /\ (demo.stop_event = "none" /\ demo.steps > 0
        => /\ demo.frames <= demo.steps
           /\ Exited /\ ~Interrupted => Processed(demo.steps))'
  /\ (Exited /\ demo.broadcaster.started
        => demo.broadcaster.stopped /\ ~demo.broadcaster._server)'

\* C23: _run starts no iteration once stop_event is set; if the event is
\* already set when _run is called, no frame, audio, performance or session
\* step is processed and the helper holds no performance recommendation;
\* with steps = N > 0 and no stop event, never more than N iterations are
\* started and a run that is not ended from outside has processed exactly N
\* when it exits; and at every exit, by return or by exception, a
\* broadcaster that was started is stopped.
C23_RunHonoursStopEventStepsAndStopsBroadcaster == [][RunAsClaimed]_vars

\* The same holds of every run whose helper has an analyzer that reports
\* keywords: the loop itself is as described.
RunAsClaimedWithKeywordReports ==
  [][demo.audio = "keyword_analyzer" => RunAsClaimed]_vars

\* Apart from the number of iterations, the rest holds of every run.
RunAsClaimedButForIterations ==
  [][/\ (demo'.pc = "frame" /\ demo.pc # "frame") => demo.stop_event # "set"
     /\ (demo.set_at_call => NothingProcessed)'
     /\ (demo.stop_event = "none" /\ demo.steps > 0
           => demo.frames <= demo.steps)'
     /\ (Exited /\ demo.broadcaster.started
           => demo.broadcaster.stopped /\ ~demo.broadcaster._server)'
    ]_vars

====
